---- MODULE Spec2Model ----
(***************************************************************************)
(* NexusStream order-feed pipeline: validators, sequence manager, stream   *)
(* bus, order/error repositories and the feed handler wired together by    *)
(* createContainer (in-memory and file-backed adapters).                   *)
(*                                                                         *)
(* Representation of JavaScript values:                                    *)
(*   - a string is a sequence of one-character strings;                    *)
(*   - a scalar JS value is a record [t, s, n]: t is the type tag          *)
(*     ("undefined", "null", "string", "number", "NaN", "Infinity",        *)
(*     "-Infinity", "object"), s the characters of a string, n the         *)
(*     magnitude of a number; an array of strings, as a repeated query     *)
(*     parameter is, has the tag "list" and its strings in `items`; an     *)
(*     expression that throws evaluates to TypeError or RangeError;        *)
(*   - a time value is [t, s, day, ms]: the day of the instant counted     *)
(*     from 1970-01-01 and the milliseconds from the midnight of that day  *)
(*     (UTC) to the instant; the string toISOString makes of a time value  *)
(*     is carried as that time value under the tag "iso", and a Date       *)
(*     object as its time value under the tag "date";                      *)
(*   - quantity, price and percentage numbers are carried in hundredths    *)
(*     (5 is 500, 19.99 is 1999, 8.5 percent is 850), decimal tax rates in *)
(*     ten-thousandths (0.08 is 800), numbers that are Unix timestamps in  *)
(*     minutes (ms / 60000), sequence numbers as they are;                 *)
(*   - a decoded request payload is [root, f]: the kind of the JSON root   *)
(*     and, for an object, the function from its keys to their values;     *)
(*   - a JS Map is the sequence of its [k, v] entries in insertion order.  *)
(***************************************************************************)
EXTENDS Integers, Sequences, FiniteSets, Bags, TLC

\* ------------------------------------------------------------------ bounds
MaxCalls == 3

MaxBatch == 2

\* operations on the file-backed adapters in one behaviour
MaxSteps == 4

\* calls on a stream in one behaviour
MaxBusSteps == 5

\* calls on a repository in one behaviour
MaxRepoSteps == 4

\* requests made to the HTTP routes
MaxApiSteps == 3

\* ------------------------------------------------------- program constants
PARTNER_A == "PARTNER_A"

PARTNER_B == "PARTNER_B"

PartnerIds == {PARTNER_A, PARTNER_B}

\* Jan 1, 2000 in minutes since the epoch (946684800000 ms)
minTimestamp == 15778080

\* 100 * 365 * 24 * 60 minutes
hundredYears == 52560000

\* Date.now(): 2026-10-30T00:00:00Z in minutes since the epoch
Now == 29888640

\* ------------------------------------------------------------- JS values
Undef == [t |-> "undefined", s |-> <<>>, n |-> 0]

Null == [t |-> "null", s |-> <<>>, n |-> 0]

Str(chars) == [t |-> "string", s |-> chars, n |-> 0]

Num(k) == [t |-> "number", s |-> <<>>, n |-> k]

\* the string toISOString makes of the instant of a whole minute
Iso(minutes) ==
  [t |-> "iso", s |-> <<>>, day |-> minutes \div 1440, ms |-> (minutes % 1440) * 60000]

ObjVal == [t |-> "object", s |-> <<>>, n |-> 0]

\* an array of strings
StrList(items) == [t |-> "list", s |-> <<>>, n |-> 0, items |-> items]

NotANumber == [t |-> "NaN", s |-> <<>>, n |-> 0]

Infinity == [t |-> "Infinity", s |-> <<>>, n |-> 0]

NegativeInfinity == [t |-> "-Infinity", s |-> <<>>, n |-> 0]

\* what an expression that throws evaluates to: the error thrown
TypeError == [t |-> "TypeError", s |-> <<>>, n |-> 0]

RangeError == [t |-> "RangeError", s |-> <<>>, n |-> 0]

Thrown(v) == v \in {TypeError, RangeError}

\* typeof v
TypeOf(v) ==
  CASE v.t \in {"number", "NaN", "Infinity", "-Infinity"} -> "number"
    [] v.t \in {"string", "iso"} -> "string"
    [] v.t \in {"null", "object", "date", "list"} -> "object"
    [] OTHER -> "undefined"

\* !v
Falsy(v) ==
  \/ v.t \in {"undefined", "null", "NaN"}
  \/ v.t = "string" /\ v.s = <<>>
  \/ v.t = "number" /\ v.n = 0

\* isNaN(v) for a value whose typeof is number
IsNaN(v) == v.t = "NaN"

\* a < b on two values that are numbers, false when either is NaN
NumberLess(a, b) ==
  CASE a.t = "number" -> b.t = "Infinity" \/ (b.t = "number" /\ a.n < b.n)
    [] a.t = "-Infinity" -> b.t \in {"number", "Infinity"}
    [] OTHER -> FALSE

\* Number.isInteger(v)
IsInteger(v) == v.t = "number" /\ v.n % 100 = 0

\* ----------------------------------------------------------------- digits
DigitChar(d) ==
  CASE d = 0 -> "0" [] d = 1 -> "1" [] d = 2 -> "2" [] d = 3 -> "3" [] d = 4 -> "4"
    [] d = 5 -> "5" [] d = 6 -> "6" [] d = 7 -> "7" [] d = 8 -> "8" [] OTHER -> "9"

IsDigit(c) == \E d \in 0..9 : DigitChar(d) = c

\* the decimal digits of a natural number
RECURSIVE Digits(_)
Digits(n) ==
  IF n < 10 THEN <<DigitChar(n)>> ELSE Digits(n \div 10) \o <<DigitChar(n % 10)>>

\* the decimal digits of a natural number, with zeros in front up to `width`
RECURSIVE Padded(_, _)
Padded(n, width) ==
  IF width <= 1 THEN Digits(n)
  ELSE IF Len(Digits(n)) >= width THEN Digits(n)
  ELSE <<"0">> \o Padded(n, width - 1)

DigitValue(c) == CHOOSE d \in 0..9 : DigitChar(d) = c

\* the number a sequence of decimal digits denotes
RECURSIVE ParseDigits(_)
ParseDigits(chars) ==
  IF chars = <<>> THEN 0
  ELSE 10 * ParseDigits(SubSeq(chars, 1, Len(chars) - 1)) + DigitValue(chars[Len(chars)])

\* the decimal digits a string starts with
RECURSIVE LeadingDigits(_)
LeadingDigits(chars) ==
  IF chars = <<>> \/ ~IsDigit(Head(chars)) THEN <<>>
  ELSE <<Head(chars)>> \o LeadingDigits(Tail(chars))

\* ------------------------------------------------------------- white space
\* WhiteSpace and LineTerminator of ECMAScript, which trim and parseInt
\* skip: space, tab, line feed, carriage return, form feed, vertical tab,
\* U+00A0, U+FEFF, U+1680, U+2000 to U+200A, U+2028, U+2029, U+202F, U+205F
\* and U+3000 (a character that a string of this module cannot hold is
\* written as its code point)
Whitespace ==
  {" ", "\t", "\n", "\r", "\f", "", " ", "﻿", " ", "U+2000", "U+2001",
   "U+2002", "U+2003", "U+2004", "U+2005", "U+2006", "U+2007", "U+2008",
   "U+2009", "U+200A", "U+2028", "U+2029", "U+202F", "U+205F", "U+3000"}

RECURSIVE TrimStart(_)
TrimStart(chars) ==
  IF chars = <<>> THEN <<>>
  ELSE IF Head(chars) \in Whitespace THEN TrimStart(Tail(chars))
  ELSE chars

RECURSIVE TrimEnd(_)
TrimEnd(chars) ==
  IF chars = <<>> THEN <<>>
  ELSE IF chars[Len(chars)] \in Whitespace
       THEN TrimEnd(SubSeq(chars, 1, Len(chars) - 1))
  ELSE chars

\* String.prototype.trim
Trim(chars) == TrimEnd(TrimStart(chars))

\* a result the encoding of the values cannot carry has no value in the model
Unrepresented(what) == CHOOSE n \in {} : n = what

\* ------------------------------------------------------------------ dates
\* days from 1970-01-01 to the day `day` of the month `month` of `year` in
\* the proleptic Gregorian calendar; a day behind the end of the month
\* counts on into the next one (MakeDay)
daysFromCivil(year, month, day) ==
  LET y == IF month <= 2 THEN year - 1 ELSE year
      era == y \div 400
      yoe == y - era * 400
      mp == IF month > 2 THEN month - 3 ELSE month + 9
      doy == (153 * mp + 2) \div 5 + day - 1
      doe == yoe * 365 + yoe \div 4 - yoe \div 100 + doy
  IN era * 146097 + doe - 719468

\* the year, month and day of the day that many days from 1970-01-01
civilFromDays(days) ==
  LET z == days + 719468
      era == z \div 146097
      doe == z - era * 146097
      yoe == (doe - doe \div 1460 + doe \div 36524 - doe \div 146096) \div 365
      doy == doe - (365 * yoe + yoe \div 4 - yoe \div 100)
      mp == (5 * doy + 2) \div 153
      month == IF mp < 10 THEN mp + 3 ELSE mp - 9
  IN [year |-> yoe + era * 400 + (IF month <= 2 THEN 1 ELSE 0),
      month |-> month,
      day |-> doy - (153 * mp + 2) \div 5 + 1]

\* A time value, the milliseconds from the epoch to an instant, is carried
\* as the day of the instant, counted from 1970-01-01, and the milliseconds
\* from the midnight of that day (UTC) to the instant.
Time(day, ms) == [t |-> "time", s |-> <<>>, day |-> day, ms |-> ms]

\* the time value of a number of minutes
TimeOfMinutes(minutes) == Time(minutes \div 1440, (minutes % 1440) * 60000)

\* TimeClip: a time value is at most 8.64e15 ms, 100,000,000 days, away
\* from the epoch
TimeClip(day, ms) ==
  IF day < 0 - 100000000 \/ day > 100000000 \/ (day = 100000000 /\ ms > 0)
  THEN NotANumber
  ELSE Time(day, ms)

\* ---- the date parser of V8 (DateParser::Parse), which Date.parse and
\* new Date(string) run: the string is cut into tokens, the tokens are read
\* as an ES5 date-time string as far as they are one, and what is left goes
\* to the legacy parser
EndToken == [kind |-> "end", value |-> 0, length |-> 0, type |-> "", symbol |-> ""]

NumberToken(n, length) ==
  [kind |-> "number", value |-> n, length |-> length, type |-> "", symbol |-> ""]

SymbolToken(c) == [kind |-> "symbol", value |-> 0, length |-> 1, type |-> "", symbol |-> c]

KeywordToken(type, value, length) ==
  [kind |-> "keyword", value |-> value, length |-> length, type |-> type, symbol |-> ""]

WhiteSpaceToken == [kind |-> "space", value |-> 0, length |-> 1, type |-> "", symbol |-> ""]

UnknownToken == [kind |-> "unknown", value |-> 0, length |-> 1, type |-> "", symbol |-> ""]

UpperCase ==
  <<"A","B","C","D","E","F","G","H","I","J","K","L","M",
    "N","O","P","Q","R","S","T","U","V","W","X","Y","Z">>

LowerCase ==
  <<"a","b","c","d","e","f","g","h","i","j","k","l","m",
    "n","o","p","q","r","s","t","u","v","w","x","y","z">>

\* AsciiAlphaToLower, for what it means to the keywords: a capital letter
\* becomes the small one
AsciiAlphaToLower(c) ==
  IF \E i \in 1..26 : UpperCase[i] = c
  THEN LowerCase[CHOOSE i \in 1..26 : UpperCase[i] = c]
  ELSE c

\* the printable characters in front of 'A' that are neither a digit nor
\* white space
Punctuation ==
  {"!", "\"", "#", "$", "%", "&", "'", "(", ")", "*", "+", ",", "-", ".", "/",
   ":", ";", "<", "=", ">", "?", "@"}

\* a character of a word: IsAsciiAlphaOrAbove, a character from 'A' on,
\* that is no white space
IsWordChar(c) == ~IsDigit(c) /\ c \notin Punctuation /\ c \notin Whitespace

\* KeywordTable::array
KeywordTable ==
  <<[word |-> <<"j","a","n">>, type |-> "MONTH_NAME", value |-> 1],
    [word |-> <<"f","e","b">>, type |-> "MONTH_NAME", value |-> 2],
    [word |-> <<"m","a","r">>, type |-> "MONTH_NAME", value |-> 3],
    [word |-> <<"a","p","r">>, type |-> "MONTH_NAME", value |-> 4],
    [word |-> <<"m","a","y">>, type |-> "MONTH_NAME", value |-> 5],
    [word |-> <<"j","u","n">>, type |-> "MONTH_NAME", value |-> 6],
    [word |-> <<"j","u","l">>, type |-> "MONTH_NAME", value |-> 7],
    [word |-> <<"a","u","g">>, type |-> "MONTH_NAME", value |-> 8],
    [word |-> <<"s","e","p">>, type |-> "MONTH_NAME", value |-> 9],
    [word |-> <<"o","c","t">>, type |-> "MONTH_NAME", value |-> 10],
    [word |-> <<"n","o","v">>, type |-> "MONTH_NAME", value |-> 11],
    [word |-> <<"d","e","c">>, type |-> "MONTH_NAME", value |-> 12],
    [word |-> <<"a","m">>, type |-> "AM_PM", value |-> 0],
    [word |-> <<"p","m">>, type |-> "AM_PM", value |-> 12],
    [word |-> <<"u","t">>, type |-> "TIME_ZONE_NAME", value |-> 0],
    [word |-> <<"u","t","c">>, type |-> "TIME_ZONE_NAME", value |-> 0],
    [word |-> <<"z">>, type |-> "TIME_ZONE_NAME", value |-> 0],
    [word |-> <<"g","m","t">>, type |-> "TIME_ZONE_NAME", value |-> 0],
    [word |-> <<"c","d","t">>, type |-> "TIME_ZONE_NAME", value |-> 0 - 5],
    [word |-> <<"c","s","t">>, type |-> "TIME_ZONE_NAME", value |-> 0 - 6],
    [word |-> <<"e","d","t">>, type |-> "TIME_ZONE_NAME", value |-> 0 - 4],
    [word |-> <<"e","s","t">>, type |-> "TIME_ZONE_NAME", value |-> 0 - 5],
    [word |-> <<"m","d","t">>, type |-> "TIME_ZONE_NAME", value |-> 0 - 6],
    [word |-> <<"m","s","t">>, type |-> "TIME_ZONE_NAME", value |-> 0 - 7],
    [word |-> <<"p","d","t">>, type |-> "TIME_ZONE_NAME", value |-> 0 - 7],
    [word |-> <<"p","s","t">>, type |-> "TIME_ZONE_NAME", value |-> 0 - 8],
    [word |-> <<"t">>, type |-> "TIME_SEPARATOR", value |-> 0]>>

\* KeywordTable::Lookup on the first three characters of a word, in small
\* letters, and its length: a word longer than its keyword is a month name
\* only
Lookup(prefix, length) ==
  IF \E i \in 1..Len(KeywordTable) :
       /\ KeywordTable[i].word = prefix
       /\ (length <= 3 \/ KeywordTable[i].type = "MONTH_NAME")
  THEN LET entry == KeywordTable[CHOOSE i \in 1..Len(KeywordTable) :
                                   KeywordTable[i].word = prefix]
       IN KeywordToken(entry.type, entry.value, length)
  ELSE KeywordToken("INVALID", 0, length)

\* the position behind the digits that begin at position i
RECURSIVE DigitsEnd(_, _)
DigitsEnd(chars, i) ==
  IF i <= Len(chars) /\ IsDigit(chars[i]) THEN DigitsEnd(chars, i + 1) ELSE i

\* the position behind the word that begins at position i
RECURSIVE WordEnd(_, _)
WordEnd(chars, i) ==
  IF i <= Len(chars) /\ IsWordChar(chars[i]) THEN WordEnd(chars, i + 1) ELSE i

\* SkipParentheses: the position behind the text in parentheses, with
\* `balance` of them open at position i
RECURSIVE ParenthesesEnd(_, _, _)
ParenthesesEnd(chars, i, balance) ==
  IF balance <= 0 \/ i > Len(chars) THEN i
  ELSE ParenthesesEnd(chars, i + 1,
                      IF chars[i] = ")" THEN balance - 1
                      ELSE IF chars[i] = "(" THEN balance + 1
                      ELSE balance)

RECURSIVE SkipZeros(_)
SkipZeros(digits) ==
  IF digits # <<>> /\ Head(digits) = "0" THEN SkipZeros(Tail(digits)) ELSE digits

\* the digits ReadUnsignedNumeral reads after the zeros in front: nine of
\* them at most
Significant(digits) == SubSeq(digits, 1, IF Len(digits) > 9 THEN 9 ELSE Len(digits))

\* InputReader::ReadUnsignedNumeral
ReadUnsignedNumeral(digits) == ParseDigits(Significant(SkipZeros(digits)))

\* the first characters of a word, three at most, in small letters
Prefix(word) ==
  [i \in 1..(IF Len(word) > 3 THEN 3 ELSE Len(word)) |-> AsciiAlphaToLower(word[i])]

\* DateStringTokenizer::Scan from position i on: the tokens of the string
RECURSIVE Scan(_, _)
ScanNumber(chars, i, end) ==
  <<NumberToken(ReadUnsignedNumeral(SubSeq(chars, i, end - 1)), end - i)>> \o Scan(chars, end)

ScanWord(chars, i, end) ==
  <<Lookup(Prefix(SubSeq(chars, i, end - 1)), end - i)>> \o Scan(chars, end)

Scan(chars, i) ==
  IF i > Len(chars) THEN <<>>
  ELSE IF IsDigit(chars[i]) THEN ScanNumber(chars, i, DigitsEnd(chars, i))
  ELSE IF chars[i] \in {":", "-", "+", ".", ")"}
  THEN <<SymbolToken(chars[i])>> \o Scan(chars, i + 1)
  ELSE IF IsWordChar(chars[i]) THEN ScanWord(chars, i, WordEnd(chars, i))
  ELSE IF chars[i] \in Whitespace THEN <<WhiteSpaceToken>> \o Scan(chars, i + 1)
  ELSE IF chars[i] = "(" THEN <<UnknownToken>> \o Scan(chars, ParenthesesEnd(chars, i + 1, 1))
  ELSE <<UnknownToken>> \o Scan(chars, i + 1)

\* scanner.Peek() with the scanner at position i of the tokens
Peek(tokens, i) == IF i <= Len(tokens) THEN tokens[i] ELSE EndToken

IsFixedNumber(token, length) == token.kind = "number" /\ token.length = length

IsSymbol(token, c) == token.kind = "symbol" /\ token.symbol = c

IsAsciiSign(token) == token.kind = "symbol" /\ token.symbol \in {"+", "-"}

IsKeywordType(token, type) == token.kind = "keyword" /\ token.type = type

IsKeywordZ(token) == IsKeywordType(token, "TIME_ZONE_NAME") /\ token.length = 1

Sign(token) == IF token.symbol = "-" THEN 0 - 1 ELSE 1

\* DateParser::ReadMilliseconds: the first three digits of a fraction
ReadMilliseconds(token) ==
  CASE token.length = 1 -> token.value * 100
    [] token.length = 2 -> token.value * 10
    [] token.length = 4 -> token.value \div 10
    [] token.length = 5 -> token.value \div 100
    [] token.length = 6 -> token.value \div 1000
    [] token.length = 7 -> token.value \div 10000
    [] token.length = 8 -> token.value \div 100000
    [] token.length >= 9 -> token.value \div 1000000
    [] OTHER -> token.value

\* The composers of the parser: `day`, the numbers of the DayComposer, three
\* at most; `named`, its named month; `iso`, its is_iso_date_; `time`, the
\* numbers of the TimeComposer, four at most; `hourOffset`, what AM or PM
\* adds; `sign`, `hour` and `minute` of the TimeZoneComposer; `read`,
\* has_read_number. What is kNone in the parser is 0 for the sign and the
\* empty sequence elsewhere. `ok` is false when Parse has returned false.
NewComposers ==
  [ok |-> TRUE, day |-> <<>>, named |-> <<>>, iso |-> FALSE, time |-> <<>>,
   hourOffset |-> <<>>, sign |-> 0, hour |-> <<>>, minute |-> <<>>, read |-> FALSE]

Unparsed == [NewComposers EXCEPT !.ok = FALSE]

\* TimeZoneComposer::Set
SetZone(p, offsetInHours) ==
  [p EXCEPT !.sign = IF offsetInHours < 0 THEN 0 - 1 ELSE 1,
            !.hour = <<IF offsetInHours < 0 THEN 0 - offsetInHours ELSE offsetInHours>>,
            !.minute = <<0>>]

\* TimeComposer::IsExpecting
TimeIsExpecting(p, n) ==
  \/ Len(p.time) = 1 /\ n \in 0..59
  \/ Len(p.time) = 2 /\ n \in 0..59
  \/ Len(p.time) = 3 /\ n \in 0..999

\* TimeZoneComposer::IsExpecting
ZoneIsExpecting(p, n) == p.hour # <<>> /\ p.minute = <<>> /\ n \in 0..59

\* TimeComposer::AddFinal: the number is added and the slots left are
\* zero; nothing is done to a composer that is full
AddFinal(time, n) ==
  IF Len(time) >= 4 THEN time
  ELSE [i \in 1..4 |-> IF i <= Len(time) THEN time[i] ELSE IF i = Len(time) + 1 THEN n ELSE 0]

\* ---- the legacy parser: the loop of DateParser::Parse over the tokens
\* from position i on
RECURSIVE LegacyParse(_, _, _)
\* n. with the number expected as a time: the milliseconds follow
LegacyFraction(tokens, j, p, n) ==
  IF Peek(tokens, j).kind # "number" THEN Unparsed
  ELSE LegacyParse(tokens, j + 1,
                   [p EXCEPT !.time = AddFinal(Append(p.time, n),
                                               ReadMilliseconds(Peek(tokens, j)))])

\* the last number of a time: the end, white space, Z or a sign follows
LegacyFinal(tokens, j, p, n) ==
  IF Peek(tokens, j).kind \in {"end", "space"} \/ IsKeywordZ(Peek(tokens, j))
     \/ IsAsciiSign(Peek(tokens, j))
  THEN LegacyParse(tokens, j, [p EXCEPT !.time = AddFinal(p.time, n)])
  ELSE Unparsed

\* a number that is neither followed by a colon nor expected by the time
\* or the zone is a part of the date, and a dash behind it is skipped
LegacyDay(tokens, j, p, n) ==
  IF Len(p.day) >= 3 THEN Unparsed
  ELSE LegacyParse(tokens, IF IsSymbol(Peek(tokens, j), "-") THEN j + 1 ELSE j,
                   [p EXCEPT !.day = Append(p.day, n)])

\* a number not followed by a colon, with the scanner at position j behind
\* it and behind the point that may follow it
LegacyPlain(tokens, j, p, n, point) ==
  IF point /\ TimeIsExpecting(p, n) THEN LegacyFraction(tokens, j, p, n)
  ELSE IF ZoneIsExpecting(p, n) THEN LegacyParse(tokens, j, [p EXCEPT !.minute = <<n>>])
  ELSE IF TimeIsExpecting(p, n) THEN LegacyFinal(tokens, j, p, n)
  ELSE LegacyDay(tokens, j, p, n)

\* a number token at position i
LegacyNumber(tokens, i, p, n) ==
  IF IsSymbol(Peek(tokens, i + 1), ":")
  THEN IF IsSymbol(Peek(tokens, i + 2), ":")
       THEN (IF p.time # <<>> THEN Unparsed
             ELSE LegacyParse(tokens, i + 3, [p EXCEPT !.time = <<n, 0>>]))
       ELSE IF Len(p.time) >= 4 THEN Unparsed
       ELSE LegacyParse(tokens, IF IsSymbol(Peek(tokens, i + 2), ".") THEN i + 3 ELSE i + 2,
                        [p EXCEPT !.time = Append(p.time, n)])
  ELSE IF IsSymbol(Peek(tokens, i + 1), ".") THEN LegacyPlain(tokens, i + 2, p, n, TRUE)
  ELSE LegacyPlain(tokens, i + 1, p, n, FALSE)

\* a word at position i
LegacyKeyword(tokens, i, p, token) ==
  IF token.type = "AM_PM" /\ p.time # <<>>
  THEN LegacyParse(tokens, i + 1, [p EXCEPT !.hourOffset = <<token.value>>])
  ELSE IF token.type = "MONTH_NAME"
  THEN LegacyParse(tokens, IF IsSymbol(Peek(tokens, i + 1), "-") THEN i + 2 ELSE i + 1,
                   [p EXCEPT !.named = <<token.value>>])
  ELSE IF token.type = "TIME_ZONE_NAME" /\ p.read
  THEN LegacyParse(tokens, i + 1, SetZone(p, token.value))
  ELSE IF p.read \/ Peek(tokens, i + 1).kind = "number" THEN Unparsed
  ELSE LegacyParse(tokens, i + 1, p)

\* the offset behind a sign: the number n of `length` digits (0 of 0 digits
\* when no number follows), with the scanner at position j behind it
LegacyOffset(tokens, j, p, n, length) ==
  IF IsSymbol(Peek(tokens, j), ":")
  THEN LegacyParse(tokens, j, [p EXCEPT !.hour = <<n>>, !.minute = <<>>])
  ELSE IF length \in {1, 2}
  THEN LegacyParse(tokens, j, [p EXCEPT !.hour = <<n>>, !.minute = <<0>>])
  ELSE IF length \in {3, 4}
  THEN LegacyParse(tokens, j, [p EXCEPT !.hour = <<n \div 100>>, !.minute = <<n % 100>>])
  ELSE Unparsed

\* a sign at position i, after UTC or a time
LegacySign(tokens, i, p) ==
  IF Peek(tokens, i + 1).kind = "number"
  THEN LegacyOffset(tokens, i + 2, p, Peek(tokens, i + 1).value, Peek(tokens, i + 1).length)
  ELSE LegacyOffset(tokens, i + 1, p, 0, 0)

LegacyParse(tokens, i, p) ==
  IF i > Len(tokens) \/ ~p.ok THEN p
  ELSE IF tokens[i].kind = "number"
  THEN LegacyNumber(tokens, i, [p EXCEPT !.read = TRUE], tokens[i].value)
  ELSE IF tokens[i].kind = "keyword" THEN LegacyKeyword(tokens, i, p, tokens[i])
  ELSE IF /\ IsAsciiSign(tokens[i])
          /\ ((p.hour = <<0>> /\ p.minute = <<0>>) \/ p.time # <<>>)
  THEN LegacySign(tokens, i, [p EXCEPT !.sign = Sign(tokens[i]), !.read = TRUE])
  ELSE IF (IsAsciiSign(tokens[i]) \/ IsSymbol(tokens[i], ")")) /\ p.read THEN Unparsed
  ELSE LegacyParse(tokens, i + 1, p)

\* what ParseES5DateTime leaves to the legacy parser, from the token at
\* position i on
Legacy(tokens, i, p) == LegacyParse(tokens, i, [p EXCEPT !.read = p.day # <<>>])

\* ---- ParseES5DateTime
\* the end of an ES5 date-time string: a date without time and zone is UTC
ES5End(tokens, i, p) ==
  IF i <= Len(tokens) THEN Unparsed
  ELSE IF p.hour = <<>> /\ p.time = <<>> THEN [SetZone(p, 0) EXCEPT !.iso = TRUE]
  ELSE [p EXCEPT !.iso = TRUE]

\* the digits of a zone, hhmm or hh:mm, behind its sign
ES5Offset(tokens, i, p) ==
  IF IsFixedNumber(Peek(tokens, i), 4)
  THEN (IF tokens[i].value \div 100 \in 0..23 /\ tokens[i].value % 100 \in 0..59
        THEN ES5End(tokens, i + 1, [p EXCEPT !.hour = <<tokens[i].value \div 100>>,
                                             !.minute = <<tokens[i].value % 100>>])
        ELSE Unparsed)
  ELSE IF /\ IsFixedNumber(Peek(tokens, i), 2) /\ tokens[i].value \in 0..23
          /\ IsSymbol(Peek(tokens, i + 1), ":")
          /\ IsFixedNumber(Peek(tokens, i + 2), 2) /\ tokens[i + 2].value \in 0..59
  THEN ES5End(tokens, i + 3, [p EXCEPT !.hour = <<tokens[i].value>>,
                                       !.minute = <<tokens[i + 2].value>>])
  ELSE Unparsed

\* the zone of an ES5 date-time string: Z, a sign and an offset, or none
ES5Zone(tokens, i, p) ==
  IF IsKeywordZ(Peek(tokens, i)) THEN ES5End(tokens, i + 1, SetZone(p, 0))
  ELSE IF IsAsciiSign(Peek(tokens, i))
  THEN ES5Offset(tokens, i + 1, [p EXCEPT !.sign = Sign(tokens[i])])
  ELSE ES5End(tokens, i, p)

\* a number of an hour 24 is zero
ZeroAt24(p, token) == p.time[1] = 24 => token.value = 0

\* [.sss] behind the seconds
ES5Fraction(tokens, i, p) ==
  IF ~IsSymbol(Peek(tokens, i), ".") THEN ES5Zone(tokens, i, p)
  ELSE IF Peek(tokens, i + 1).kind = "number" /\ ZeroAt24(p, tokens[i + 1])
  THEN ES5Zone(tokens, i + 2,
               [p EXCEPT !.time = Append(p.time, ReadMilliseconds(tokens[i + 1]))])
  ELSE Unparsed

\* [:ss[.sss]] behind the minutes
ES5Seconds(tokens, i, p) ==
  IF ~IsSymbol(Peek(tokens, i), ":") THEN ES5Zone(tokens, i, p)
  ELSE IF /\ IsFixedNumber(Peek(tokens, i + 1), 2) /\ tokens[i + 1].value \in 0..59
          /\ ZeroAt24(p, tokens[i + 1])
  THEN ES5Fraction(tokens, i + 2, [p EXCEPT !.time = Append(p.time, tokens[i + 1].value)])
  ELSE Unparsed

\* :mm behind the hour
ES5Minutes(tokens, i, p) ==
  IF /\ IsSymbol(Peek(tokens, i), ":")
     /\ IsFixedNumber(Peek(tokens, i + 1), 2) /\ tokens[i + 1].value \in 0..59
     /\ ZeroAt24(p, tokens[i + 1])
  THEN ES5Seconds(tokens, i + 2, [p EXCEPT !.time = Append(p.time, tokens[i + 1].value)])
  ELSE Unparsed

\* the time behind the date: T and HH:mm[:ss[.sss]][zone]; anything else
\* that follows the date goes to the legacy parser
ES5Time(tokens, i, p) ==
  IF ~IsKeywordType(Peek(tokens, i), "TIME_SEPARATOR")
  THEN (IF i > Len(tokens) THEN ES5End(tokens, i, p) ELSE Legacy(tokens, i, p))
  ELSE IF IsFixedNumber(Peek(tokens, i + 1), 2) /\ tokens[i + 1].value \in 0..24
  THEN ES5Minutes(tokens, i + 2, [p EXCEPT !.time = <<tokens[i + 1].value>>])
  ELSE Unparsed

\* [-DD] behind the month
ES5Day(tokens, i, p) ==
  IF ~IsSymbol(Peek(tokens, i), "-") THEN ES5Time(tokens, i, p)
  ELSE IF IsFixedNumber(Peek(tokens, i + 1), 2) /\ tokens[i + 1].value \in 1..31
  THEN ES5Time(tokens, i + 2, [p EXCEPT !.day = Append(p.day, tokens[i + 1].value)])
  ELSE Legacy(tokens, i + 1, p)

\* [-MM[-DD]] behind the year
ES5Month(tokens, i, p) ==
  IF ~IsSymbol(Peek(tokens, i), "-") THEN ES5Time(tokens, i, p)
  ELSE IF IsFixedNumber(Peek(tokens, i + 1), 2) /\ tokens[i + 1].value \in 1..12
  THEN ES5Day(tokens, i + 2, [p EXCEPT !.day = Append(p.day, tokens[i + 1].value)])
  ELSE Legacy(tokens, i + 1, p)

\* ParseES5DateTime and the legacy loop behind it: the composers when Parse
\* is through the tokens. The year is yyyy or a sign and six digits; a sign
\* that begins no such year goes to the legacy parser
Composed(tokens) ==
  IF IsAsciiSign(Peek(tokens, 1))
  THEN IF ~IsFixedNumber(Peek(tokens, 2), 6) THEN Legacy(tokens, 1, NewComposers)
       ELSE IF tokens[1].symbol = "-" /\ tokens[2].value = 0 THEN Unparsed
       ELSE ES5Month(tokens, 3,
                     [NewComposers EXCEPT !.day = <<Sign(tokens[1]) * tokens[2].value>>])
  ELSE IF IsFixedNumber(Peek(tokens, 1), 4)
  THEN ES5Month(tokens, 2, [NewComposers EXCEPT !.day = <<tokens[1].value>>])
  ELSE Legacy(tokens, 1, NewComposers)

\* ---- DayComposer::Write, TimeComposer::Write, TimeZoneComposer::Write
\* the numbers of a composer with the slots left filled
Filled(numbers, length, with) ==
  [i \in 1..length |-> IF i <= Len(numbers) THEN numbers[i] ELSE with]

\* the year, month and day of three numbers: the year is in front in an
\* ES5 date and when the first number is no day; with a named month the
\* other two numbers are the year and the day
Placed(comp, named, iso) ==
  IF named = <<>>
  THEN (IF iso \/ comp[1] \notin 1..31
        THEN [year |-> comp[1], month |-> comp[2], day |-> comp[3]]
        ELSE [year |-> comp[3], month |-> comp[1], day |-> comp[2]])
  ELSE IF comp[1] \notin 1..31
  THEN [year |-> comp[1], month |-> named[1], day |-> comp[2]]
  ELSE [year |-> comp[2], month |-> named[1], day |-> comp[1]]

\* a year of two digits of a legacy date is a year from 1950 to 2049
FullYear(year, iso) ==
  IF ~iso /\ year \in 0..49 THEN year + 2000
  ELSE IF ~iso /\ year \in 50..99 THEN year + 1900
  ELSE year

\* the hour of the TimeComposer, with AM or PM
Hour(time, hourOffset) ==
  IF hourOffset = <<>> THEN time[1] ELSE (time[1] % 12) + hourOffset[1]

TimeIsValid(time, hourOffset) ==
  /\ hourOffset # <<>> => time[1] \in 0..12
  /\ \/ /\ Hour(time, hourOffset) \in 0..23 /\ time[2] \in 0..59
        /\ time[3] \in 0..59 /\ time[4] \in 0..999
     \/ Hour(time, hourOffset) = 24 /\ time[2] = 0 /\ time[3] = 0 /\ time[4] = 0

\* the milliseconds from midnight to the time of day
InDay(time, hourOffset) ==
  ((Hour(time, hourOffset) * 60 + time[2]) * 60 + time[3]) * 1000 + time[4]

\* the most minutes of a zone whose seconds are a Smi in every build:
\* Smi::kMaxValue is 2^30 - 1 with 31-bit Smis and 2^31 - 1 with 32-bit ones
MaxZoneMinutes == 1073741823 \div 60

\* the minutes of the zone east of UTC; a string without zone is local
\* time, and the process runs in UTC
ZoneMinutes(p) ==
  IF p.sign = 0 THEN 0
  ELSE p.sign * ((IF p.hour = <<>> THEN 0 ELSE p.hour[1]) * 60
                 + (IF p.minute = <<>> THEN 0 ELSE p.minute[1]))

\* MakeDate of the day and the time of day, less the offset of the zone,
\* and TimeClip of it
Instant(days, inDay, zone) ==
  TimeClip(days - zone \div 1440 + (inDay - (zone % 1440) * 60000) \div 86400000,
           ((inDay - (zone % 1440) * 60000) % 86400000))

\* TimeZoneComposer::Write computes hour * 3600 + minute * 60 in an int and
\* refuses a sum above Smi::kMaxValue: whether the seconds of the zone are
\* below both
ZoneIsInt(p) ==
  \/ p.sign = 0
  \/ /\ (p.hour # <<>> => p.hour[1] <= MaxZoneMinutes \div 60)
     /\ (p.minute # <<>> => p.minute[1] <= MaxZoneMinutes)
     /\ p.sign * ZoneMinutes(p) <= MaxZoneMinutes

\* MakeDay: no day for a year more than 1,000,000 years from the year 0.
\* The day and the time are written before the zone; what becomes of a
\* zone that is not ZoneIsInt depends on the build and on the overflow of
\* the int, and is Unrepresented.
WrittenDay(date, time, hourOffset, p) ==
  IF /\ date.year \in (0 - 1000000)..1000000 /\ date.month \in 1..12 /\ date.day \in 1..31
     /\ TimeIsValid(time, hourOffset)
  THEN (IF ZoneIsInt(p)
        THEN Instant(daysFromCivil(date.year, date.month, date.day),
                     InDay(time, hourOffset), ZoneMinutes(p))
        ELSE Unrepresented(p))
  ELSE NotANumber

\* the three Write calls at the end of Parse and ParseDateTimeString behind
\* them
Written(p) ==
  IF ~p.ok \/ p.day = <<>> THEN NotANumber
  ELSE WrittenDay([year |-> FullYear(Placed(Filled(p.day, 3, 1), p.named, p.iso).year, p.iso),
                   month |-> Placed(Filled(p.day, 3, 1), p.named, p.iso).month,
                   day |-> Placed(Filled(p.day, 3, 1), p.named, p.iso).day],
                  Filled(p.time, 4, 0), p.hourOffset, p)

\* Date.parse(chars), new Date(chars).getTime(): the time value of the
\* instant the string denotes, NaN when the parser of V8 does not read it
DateParse(chars) == Written(Composed(Scan(chars, 1)))

\* the year of toISOString: four digits, or a sign and six digits for a
\* year outside 0 to 9999
YearChars(year) ==
  IF year \in 0..9999 THEN Padded(year, 4)
  ELSE IF year < 0 THEN <<"-">> \o Padded(0 - year, 6)
  ELSE <<"+">> \o Padded(year, 6)

\* the date and the milliseconds of the day as YYYY-MM-DDTHH:mm:ss.sssZ
FormatDate(date, inDay) ==
  YearChars(date.year) \o <<"-">> \o Padded(date.month, 2) \o <<"-">>
  \o Padded(date.day, 2) \o <<"T">> \o Padded(inDay \div 3600000, 2) \o <<":">>
  \o Padded((inDay \div 60000) % 60, 2) \o <<":">> \o Padded((inDay \div 1000) % 60, 2)
  \o <<".">> \o Padded(inDay % 1000, 3) \o <<"Z">>

\* Date.prototype.toISOString of the instant of a time value
toISOString(day, ms) == FormatDate(civilFromDays(day), ms)

\* ---- ToNumber of a string (StringToNumber), which `/` applies to an
\* operand that is a string: white space around the literal is dropped, the
\* empty string is 0, and a string that is no StringNumericLiteral is NaN.
\* The number is carried in hundredths; one that hundredths within the
\* integers cannot carry is Unrepresented.
HexLetters == <<"a","b","c","d","e","f">>

IsRadixDigit(c, radix) ==
  IF IsDigit(c) THEN DigitValue(c) < radix
  ELSE radix = 16 /\ \E i \in 1..6 : HexLetters[i] = AsciiAlphaToLower(c)

RadixValue(c) ==
  IF IsDigit(c) THEN DigitValue(c)
  ELSE 9 + (CHOOSE i \in 1..6 : HexLetters[i] = AsciiAlphaToLower(c))

\* the number the digits denote in the radix
RECURSIVE ParseRadix(_, _)
ParseRadix(chars, radix) ==
  IF chars = <<>> THEN 0
  ELSE radix * ParseRadix(SubSeq(chars, 1, Len(chars) - 1), radix)
       + RadixValue(chars[Len(chars)])

\* 16, 8 or 2 for a literal that begins with 0x, 0o or 0b, else 10
Radix(chars) ==
  IF Len(chars) < 2 \/ chars[1] # "0" THEN 10
  ELSE CASE AsciiAlphaToLower(chars[2]) = "x" -> 16
         [] AsciiAlphaToLower(chars[2]) = "o" -> 8
         [] AsciiAlphaToLower(chars[2]) = "b" -> 2
         [] OTHER -> 10

RECURSIVE Pow10(_)
Pow10(k) == IF k <= 0 THEN 1 ELSE 10 * Pow10(k - 1)

\* the hundredths in digits * 10^scale hundredths, the digits without zeros
\* in front: Infinity from 1e309 on, 0 below 1e-330
Scaled(digits, scale) ==
  IF digits = <<>> THEN Num(0)
  ELSE IF Len(digits) + scale > 311 THEN Infinity
  ELSE IF Len(digits) + scale < 0 - 330 THEN Num(0)
  ELSE IF scale >= 0
  THEN (IF Len(digits) + scale > 9 THEN Unrepresented(digits)
        ELSE Num(ParseDigits(digits) * Pow10(scale)))
  ELSE IF /\ Len(digits) + scale \in 1..9
          /\ \A i \in (Len(digits) + scale + 1)..Len(digits) : digits[i] = "0"
  THEN Num(ParseDigits(SubSeq(digits, 1, Len(digits) + scale)))
  ELSE Unrepresented(digits)

\* the digits of an exponent; one beyond 999 acts as 1000
Exponent(chars) == IF Len(SkipZeros(chars)) > 3 THEN 1000 ELSE ParseDigits(chars)

ExponentDigits(digits, places, sign, chars) ==
  IF chars = <<>> \/ \E i \in 1..Len(chars) : ~IsDigit(chars[i]) THEN NotANumber
  ELSE Scaled(SkipZeros(digits), 2 - places + sign * Exponent(chars))

\* behind the e of a literal: [sign]digits
ExponentRead(digits, places, chars) ==
  IF chars # <<>> /\ Head(chars) \in {"+", "-"}
  THEN ExponentDigits(digits, places, IF Head(chars) = "-" THEN 0 - 1 ELSE 1, Tail(chars))
  ELSE ExponentDigits(digits, places, 1, chars)

\* behind the digits of a literal, of which there is one at least
DecimalExponent(whole, fraction, rest) ==
  IF whole = <<>> /\ fraction = <<>> THEN NotANumber
  ELSE IF rest = <<>> THEN Scaled(SkipZeros(whole \o fraction), 2 - Len(fraction))
  ELSE IF AsciiAlphaToLower(Head(rest)) = "e"
  THEN ExponentRead(whole \o fraction, Len(fraction), Tail(rest))
  ELSE NotANumber

DecimalFraction(whole, fraction, behindPoint) ==
  DecimalExponent(whole, fraction,
                  SubSeq(behindPoint, Len(fraction) + 1, Len(behindPoint)))

\* behind the digits in front of the point
DecimalPoint(whole, behind) ==
  IF behind # <<>> /\ Head(behind) = "."
  THEN DecimalFraction(whole, LeadingDigits(Tail(behind)), Tail(behind))
  ELSE DecimalExponent(whole, <<>>, behind)

\* StrUnsignedDecimalLiteral: Infinity, or digits[.digits][e[sign]digits]
UnsignedDecimal(chars) ==
  IF chars = <<"I","n","f","i","n","i","t","y">> THEN Infinity
  ELSE DecimalPoint(LeadingDigits(chars),
                    SubSeq(chars, Len(LeadingDigits(chars)) + 1, Len(chars)))

\* -v
Negated(v) ==
  CASE v.t = "number" -> Num(0 - v.n)
    [] v.t = "Infinity" -> NegativeInfinity
    [] v.t = "-Infinity" -> Infinity
    [] OTHER -> v

\* the literal of a string without the white space around it
StringNumericLiteral(chars) ==
  IF chars = <<>> THEN Num(0)
  ELSE IF Radix(chars) # 10
  THEN (IF Len(chars) > 2 /\ \A i \in 3..Len(chars) : IsRadixDigit(chars[i], Radix(chars))
        THEN Num(100 * ParseRadix(SubSeq(chars, 3, Len(chars)), Radix(chars)))
        ELSE NotANumber)
  ELSE IF Head(chars) = "-" THEN Negated(UnsignedDecimal(Tail(chars)))
  ELSE IF Head(chars) = "+" THEN UnsignedDecimal(Tail(chars))
  ELSE UnsignedDecimal(chars)

StringToNumber(chars) == StringNumericLiteral(Trim(chars))

\* ------------------------------------------------------------ conversions
\* Array.prototype.join(','), which makes the string of an array
RECURSIVE Joined(_)
Joined(items) ==
  IF items = <<>> THEN <<>>
  ELSE IF Len(items) = 1 THEN items[1]
  ELSE items[1] \o <<",">> \o Joined(Tail(items))

\* String(v), as a template literal and the operators that take a string
\* render it; a number is one that counts (a sequence number, a page), and
\* the string of a Date, which depends on the time zone of the host, is not
\* carried
ToChars(v) ==
  CASE v.t = "string" -> v.s
    [] v.t = "iso" -> toISOString(v.day, v.ms)
    [] v.t = "undefined" -> <<"u","n","d","e","f","i","n","e","d">>
    [] v.t = "null" -> <<"n","u","l","l">>
    [] v.t = "number" -> (IF v.n < 0 THEN <<"-">> \o Digits(0 - v.n) ELSE Digits(v.n))
    [] v.t = "NaN" -> <<"N","a","N">>
    [] v.t = "Infinity" -> <<"I","n","f","i","n","i","t","y">>
    [] v.t = "-Infinity" -> <<"-","I","n","f","i","n","i","t","y">>
    [] v.t = "list" -> Joined(v.items)
    [] v.t = "date" -> Unrepresented(v)
    [] OTHER -> <<"[","o","b","j","e","c","t"," ","O","b","j","e","c","t","]">>

\* the printable characters of ASCII in the order of their code units, from
\* the space, 32, to the tilde, 126; the grave accent, 96, which no string
\* of a module can hold, is named
CodeUnits ==
  <<" ", "!", "\"", "#", "$", "%", "&", "'", "(", ")", "*", "+", ",", "-", ".", "/",
    "0", "1", "2", "3", "4", "5", "6", "7", "8", "9", ":", ";", "<", "=", ">", "?", "@",
    "A", "B", "C", "D", "E", "F", "G", "H", "I", "J", "K", "L", "M",
    "N", "O", "P", "Q", "R", "S", "T", "U", "V", "W", "X", "Y", "Z",
    "[", "\\", "]", "^", "_", "grave accent",
    "a", "b", "c", "d", "e", "f", "g", "h", "i", "j", "k", "l", "m",
    "n", "o", "p", "q", "r", "s", "t", "u", "v", "w", "x", "y", "z",
    "{", "|", "}", "~">>

\* the code unit of a character
CodeUnit(c) ==
  IF \E i \in 1..Len(CodeUnits) : CodeUnits[i] = c
  THEN 31 + (CHOOSE i \in 1..Len(CodeUnits) : CodeUnits[i] = c)
  ELSE Unrepresented(c)

\* a < b on two strings: by the code units of the first place they differ in
RECURSIVE StringLess(_, _)
StringLess(a, b) ==
  IF b = <<>> THEN FALSE
  ELSE IF a = <<>> THEN TRUE
  ELSE IF Head(a) = Head(b) THEN StringLess(Tail(a), Tail(b))
  ELSE CodeUnit(Head(a)) < CodeUnit(Head(b))

\* a number of hundredths in units of which `unit` make 1
Rescaled(hundredths, unit) ==
  IF hundredths.t # "number" \/ unit = 100 THEN hundredths
  ELSE IF (hundredths.n * unit) % 100 = 0 THEN Num((hundredths.n * unit) \div 100)
  ELSE Unrepresented(hundredths)

\* ToNumber(v) where `unit` of the numbers are 1 (100 for an amount, 1 for
\* a number that counts): null is 0, a string the number it spells, an
\* array that of its string, undefined and an object that is no Date NaN;
\* the time value of a Date is not carried as a number
ToNumber(v, unit) ==
  CASE v.t \in {"number", "NaN", "Infinity", "-Infinity"} -> v
    [] v.t = "null" -> Num(0)
    [] v.t \in {"string", "list"} ->
         Rescaled(StringToNumber(IF v.t = "string" THEN v.s ELSE Joined(v.items)), unit)
    [] v.t = "date" -> Unrepresented(v)
    [] OTHER -> NotANumber

\* ToPrimitive of the value is a string
IsStringy(v) == v.t \in {"string", "iso", "object", "list"}

\* the first of two strings is less than the second
FirstStringLess(strings) == StringLess(strings[1], strings[2])

\* the first of two numbers is less than the second
FirstNumberLess(numbers) == NumberLess(numbers[1], numbers[2])

\* two strings are equal
SameStrings(strings) == strings[1] = strings[2]

\* a < b, the abstract relational comparison: two strings are compared by
\* their code units, any other two values as the numbers they convert to
Less(a, b, unit) ==
  IF IsStringy(a) /\ IsStringy(b)
  THEN FirstStringLess([i \in 1..2 |-> ToChars(<<a, b>>[i])])
  ELSE FirstNumberLess([i \in 1..2 |-> ToNumber(<<a, b>>[i], unit)])

\* a < b on amounts, rates and timestamps
JsLess(a, b) == Less(a, b, 100)

\* a === b; an object is equal to itself only, and the objects met here are
\* different ones
StrictEquals(a, b) ==
  IF TypeOf(a) = "string" /\ TypeOf(b) = "string"
  THEN SameStrings([i \in 1..2 |-> ToChars(<<a, b>>[i])])
  ELSE IF a.t \in {"NaN", "object", "date", "list"} THEN FALSE
  ELSE a = b

\* the sign of a number
SignOf(v) ==
  CASE v.t = "number" -> (IF v.n > 0 THEN 1 ELSE IF v.n < 0 THEN 0 - 1 ELSE 0)
    [] v.t = "Infinity" -> 1
    [] v.t = "-Infinity" -> 0 - 1
    [] OTHER -> 0

\* a + b on two numbers
Plus(a, b) ==
  IF a.t = "number" /\ b.t = "number" THEN Num(a.n + b.n)
  ELSE IF a.t = "NaN" \/ b.t = "NaN" THEN NotANumber
  ELSE IF a.t = "number" THEN b
  ELSE IF b.t = "number" \/ a = b THEN a
  ELSE NotANumber

\* a - b on two numbers
Minus(a, b) == Plus(a, Negated(b))

\* a * b on two numbers
Times(a, b) ==
  IF a.t = "number" /\ b.t = "number" THEN Num(a.n * b.n)
  ELSE IF a.t = "NaN" \/ b.t = "NaN" \/ SignOf(a) * SignOf(b) = 0 THEN NotANumber
  ELSE IF SignOf(a) * SignOf(b) > 0 THEN Infinity
  ELSE NegativeInfinity

\* --------------------------------------------------------------- payloads
EmptyFields == [x \in {} |-> Undef]

\* a decoded JSON object with the given key/value function
Obj(fields) == [root |-> "object", f |-> fields]

NullPayload == [root |-> "null", f |-> EmptyFields]

\* a decoded JSON array of payloads
ArrayOf(items) == [root |-> "array", f |-> items]

\* `field in obj`
HasKey(obj, field) == field \in DOMAIN obj

\* input.field: a TypeError when input is null or undefined, the value of
\* the key when input is an object that has it, undefined otherwise
GetProp(input, field) ==
  IF input.root \in {"null", "undefined"} THEN TypeError
  ELSE IF input.root = "object" /\ HasKey(input.f, field) THEN input.f[field]
  ELSE Undef

\* characters of the date strings used as purchaseTime
Date20240115 == <<"2","0","2","4","-","0","1","-","1","5">>

Date20241345 == <<"2","0","2","4","-","1","3","-","4","5">>

\* '2024-01-15 10:30:45', a date no ISO 8601 string that Date takes
DateTime20240115 ==
  <<"2","0","2","4","-","0","1","-","1","5"," ","1","0",":","3","0",":","4","5">>

\* ------------------------------------------------------------- validators
Err(field, message) == [field |-> field, message |-> message]

\* BaseValidator.validateRequired: the errors it adds (none when it returns true)
validateRequired(obj, field) ==
  IF ~HasKey(obj, field) THEN <<Err(field, "Missing required field")>>
  ELSE IF obj[field].t \in {"null", "undefined"}
       THEN <<Err(field, "cannot be null or undefined")>>
  ELSE <<>>

\* the characters of a value whose typeof is "string": those it carries,
\* or those of the instant toISOString returned
CharsOf(value) ==
  IF value.t = "iso" THEN toISOString(value.day, value.ms) ELSE value.s

\* BaseValidator.validateString with minLength = 1
validateString(value, field) ==
  IF TypeOf(value) # "string" THEN <<Err(field, "must be a string")>>
  ELSE IF Len(Trim(CharsOf(value))) < 1
       THEN <<Err(field, "must have at least 1 character(s)")>>
  ELSE <<>>

\* BaseValidator.validatePositiveNumber with allowZero = false
validatePositiveNumber(value, field) ==
  IF TypeOf(value) # "number" \/ IsNaN(value) THEN <<Err(field, "must be a valid number")>>
  ELSE IF ~NumberLess(Num(0), value) THEN <<Err(field, "must be a positive number")>>
  ELSE <<>>

\* BaseValidator.validateTimestampMs
validateTimestampMs(value, field) ==
  IF TypeOf(value) # "number" \/ IsNaN(value)
  THEN <<Err(field, "must be a valid timestamp (number)")>>
  ELSE IF NumberLess(value, Num(minTimestamp)) \/ NumberLess(Num(Now + hundredYears), value)
       THEN <<Err(field, "must be a valid timestamp in milliseconds")>>
  ELSE <<>>

\* BaseValidator.validateISO8601Timestamp: new Date(value).getTime() of a
\* string is the instant it denotes, which the string toISOString returned
\* carries
validateISO8601Timestamp(value, field) ==
  IF TypeOf(value) # "string" THEN <<Err(field, "must be a string")>>
  ELSE IF IsNaN(IF value.t = "iso" THEN Time(value.day, value.ms) ELSE DateParse(value.s))
       THEN <<Err(field, "must be a valid ISO 8601 timestamp")>>
  ELSE <<>>

\* BaseValidator.validateTaxRate: a percentage is carried in hundredths, a
\* decimal rate in ten-thousandths
validateTaxRate(value, field, isPercentage) ==
  LET maxValue == IF isPercentage THEN 100 * 100 ELSE 1 * 10000
  IN IF TypeOf(value) # "number" \/ IsNaN(value) THEN <<Err(field, "must be a valid number")>>
     ELSE IF NumberLess(value, Num(0)) \/ NumberLess(Num(maxValue), value)
          THEN <<Err(field, "must be between 0 and max")>>
     ELSE <<>>

\* PartnerAValidator.validateQuantity / PartnerBValidator.validateQuantity
validateQuantity(value, field) ==
  IF TypeOf(value) # "number" \/ IsNaN(value) THEN <<Err(field, "Quantity must be a valid number")>>
  ELSE IF ~IsInteger(value) THEN <<Err(field, "Quantity must be an integer")>>
  ELSE IF ~NumberLess(Num(0), value) THEN <<Err(field, "Quantity must be a positive integer")>>
  ELSE <<>>

failure(errors) == [isValid |-> FALSE, errors |-> errors]

success == [isValid |-> TRUE, errors |-> <<>>]

\* the end of validate: the errors of the required fields alone when there
\* are any, else those of the typed fields, else that of the optional one
validated(required, typed, optional) ==
  IF required # <<>> THEN failure(required)
  ELSE IF typed # <<>> THEN failure(typed)
  ELSE IF optional # <<>> THEN failure(optional)
  ELSE success

\* PartnerAValidator.validate on the fields of an object
PartnerAValidateObject(obj, metadata) ==
  validated(validateRequired(obj, "orderId") \o validateRequired(obj, "skuId")
              \o validateRequired(obj, "customerId") \o validateRequired(obj, "quantity")
              \o validateRequired(obj, "unitPrice") \o validateRequired(obj, "taxRate")
              \o validateRequired(obj, "transactionTimeMs"),
            validateString(obj.orderId, "orderId")
              \o validateString(obj.skuId, "skuId")
              \o validateString(obj.customerId, "customerId")
              \o validateQuantity(obj.quantity, "quantity")
              \o validatePositiveNumber(obj.unitPrice, "unitPrice")
              \o validateTaxRate(obj.taxRate, "taxRate", FALSE)
              \o validateTimestampMs(obj.transactionTimeMs, "transactionTimeMs"),
            IF metadata.t \notin {"undefined", "null"}
                 /\ (TypeOf(metadata) # "object" \/ metadata.t = "list")
            THEN <<Err("metadata", "Metadata must be an object")>>
            ELSE <<>>)

\* PartnerAValidator.validate
PartnerAValidate(input) ==
  IF input.root # "object" THEN failure(<<Err("root", "Input must be a valid object")>>)
  ELSE PartnerAValidateObject(input.f, GetProp(input, "metadata"))

\* PartnerBValidator.validate on the fields of an object
PartnerBValidateObject(obj, notes) ==
  validated(validateRequired(obj, "transactionId") \o validateRequired(obj, "itemCode")
              \o validateRequired(obj, "clientId") \o validateRequired(obj, "qty")
              \o validateRequired(obj, "price") \o validateRequired(obj, "tax")
              \o validateRequired(obj, "purchaseTime"),
            validateString(obj.transactionId, "transactionId")
              \o validateString(obj.itemCode, "itemCode")
              \o validateString(obj.clientId, "clientId")
              \o validateQuantity(obj.qty, "qty")
              \o validatePositiveNumber(obj.price, "price")
              \o validateTaxRate(obj.tax, "tax", TRUE)
              \o validateISO8601Timestamp(obj.purchaseTime, "purchaseTime"),
            IF notes.t \notin {"undefined", "null"} /\ TypeOf(notes) # "string"
            THEN <<Err("notes", "Notes must be a string")>>
            ELSE <<>>)

\* PartnerBValidator.validate
PartnerBValidate(input) ==
  IF input.root # "object" THEN failure(<<Err("root", "Input must be a valid object")>>)
  ELSE PartnerBValidateObject(input.f, GetProp(input, "notes"))

\* ValidationService.validatePartnerA
validatePartnerA(input) == PartnerAValidate(input)

\* ValidationService.validatePartnerB
validatePartnerB(input) == PartnerBValidate(input)

\* ---------------------------------------------------------------- JS Map
MapHas(m, key) == \E i \in 1..Len(m) : m[i].k = key

MapIndex(m, key) == CHOOSE i \in 1..Len(m) : m[i].k = key

\* Map.prototype.get for a key that is present
MapGet(m, key) == m[MapIndex(m, key)].v

\* Map.prototype.set: an existing key keeps its position
MapSet(m, key, value) ==
  IF MapHas(m, key) THEN [m EXCEPT ![MapIndex(m, key)] = [k |-> key, v |-> value]]
  ELSE Append(m, [k |-> key, v |-> value])

\* Map.prototype.delete
MapDelete(m, key) == SelectSeq(m, LAMBDA e : e.k # key)

\* ------------------------------------------------------- sequence manager
\* InMemorySequenceManager.getCurrentSequence
getCurrentSequence(seqs, partnerId) ==
  IF MapHas(seqs, partnerId) THEN MapGet(seqs, partnerId) ELSE 0

\* getNextSequence returning the counter before the increment
getNextSequence_postIncrement(seqs, partnerId) ==
  LET current == getCurrentSequence(seqs, partnerId)
      next == current + 1
  IN [value |-> current, sequences |-> MapSet(seqs, partnerId, next)]

\* getNextSequence without the store of the new counter
getNextSequence_noStore(seqs, partnerId) ==
  LET current == getCurrentSequence(seqs, partnerId)
      next == current + 1
  IN [value |-> next, sequences |-> seqs]

\* InMemorySequenceManager.getNextSequence: the returned number and the map after
getNextSequence(seqs, partnerId) ==
  LET current == getCurrentSequence(seqs, partnerId)
      next == current + 1
  IN [value |-> next, sequences |-> MapSet(seqs, partnerId, next)]

\* resetSequence clearing the whole map
resetSequence_all(seqs, partnerId) == <<>>

\* InMemorySequenceManager.resetSequence
resetSequence(seqs, partnerId) == MapDelete(seqs, partnerId)

\* InMemorySequenceManager.resetAll
resetAll(seqs) == <<>>

\* ------------------------------------------------------------ transformer
\* new Date(value).getTime(): the time value of a number and of a Date,
\* the instant a string denotes, or the string of an array, 0 for null, NaN
\* for undefined, NaN, an infinity and an object
TimeOf(v) ==
  CASE v.t = "number" -> TimeOfMinutes(v.n)
    [] v.t \in {"iso", "date"} -> Time(v.day, v.ms)
    [] v.t \in {"string", "list"} -> DateParse(IF v.t = "string" THEN v.s ELSE Joined(v.items))
    [] v.t = "null" -> Time(0, 0)
    [] OTHER -> NotANumber

\* toISOString of a Date of that time value
TimeToISOString(time) ==
  IF IsNaN(time) THEN RangeError
  ELSE [t |-> "iso", s |-> <<>>, day |-> time.day, ms |-> time.ms]

\* new Date(value).toISOString(), which throws a RangeError for an Invalid
\* Date; the string is kept as the instant it denotes
DateToISOString(value) ==
  IF Thrown(value) THEN value ELSE TimeToISOString(TimeOf(value))

\* OrderTransformer.convertMsToISO8601
convertMsToISO8601(timestampMs) == DateToISOString(timestampMs)

\* OrderTransformer.normalizeISO8601
normalizeISO8601(timestamp) == DateToISOString(timestamp)

\* the greatest time value, in milliseconds, whose hundredfold fits the
\* integers of the checker
MaxCarriedMs == 2147483647 \div 100

\* OrderTransformer.convertPercentageToDecimal: percentage / 100, from
\* hundredths of a percent to ten-thousandths of a rate (8.5 -> 0.085). The
\* division takes the number of its operand: null is 0, a string the
\* number it spells, an array the number its string spells, a Date its
\* time value (a rate of 100 ten-thousandths for each millisecond), and
\* undefined and any other object NaN
convertPercentageToDecimal(percentage) ==
  CASE percentage.t \in {"number", "Infinity", "-Infinity"} -> percentage
    [] percentage.t = "null" -> Num(0)
    [] percentage.t \in {"string", "list"} ->
         StringToNumber(IF percentage.t = "string" THEN percentage.s
                        ELSE Joined(percentage.items))
    [] percentage.t = "date" ->
         (IF percentage.day = 0 /\ percentage.ms \in 0..MaxCarriedMs
          THEN Num(percentage.ms * 100)
          ELSE Unrepresented(percentage))
    [] Thrown(percentage) -> percentage
    [] OTHER -> NotANumber

\* the properties an OrderEvent can have; a property an object lacks reads
\* as undefined
OrderEventOf(known) ==
  known @@
  [id |-> Undef, externalOrderId |-> Undef, sequenceNumber |-> Undef,
   productId |-> Undef, customerId |-> Undef, quantity |-> Undef, unitPrice |-> Undef,
   taxRate |-> Undef, grossAmount |-> Undef, taxAmount |-> Undef, netAmount |-> Undef,
   transactionTime |-> Undef, processedAt |-> Undef, metadata |-> Undef]

\* the object the transformer returns, or the error the conversion of the
\* time threw while it was built
Transformed(known, transactionTime) ==
  IF Thrown(transactionTime) THEN transactionTime
  ELSE OrderEventOf(known @@ [transactionTime |-> transactionTime])

\* OrderTransformer.transformPartnerA: a CreateOrderEventInput, which has no
\* id, sequenceNumber, amounts or processedAt; the error thrown when reading
\* input or converting the time throws
transformPartnerA(input) ==
  IF input.root \in {"null", "undefined"} THEN GetProp(input, "orderId")
  ELSE
  Transformed([externalOrderId |-> GetProp(input, "orderId"),
               partnerId |-> PARTNER_A,
               productId |-> GetProp(input, "skuId"),
               customerId |-> GetProp(input, "customerId"),
               quantity |-> GetProp(input, "quantity"),
               unitPrice |-> GetProp(input, "unitPrice"),
               taxRate |-> GetProp(input, "taxRate"),
               metadata |-> GetProp(input, "metadata")],
              convertMsToISO8601(GetProp(input, "transactionTimeMs")))

\* OrderTransformer.transformPartnerB
transformPartnerB(input) ==
  IF input.root \in {"null", "undefined"} THEN GetProp(input, "transactionId")
  ELSE
  Transformed([externalOrderId |-> GetProp(input, "transactionId"),
               partnerId |-> PARTNER_B,
               productId |-> GetProp(input, "itemCode"),
               customerId |-> GetProp(input, "clientId"),
               quantity |-> GetProp(input, "qty"),
               unitPrice |-> GetProp(input, "price"),
               taxRate |-> convertPercentageToDecimal(GetProp(input, "tax")),
               metadata |-> IF Falsy(GetProp(input, "notes")) THEN Undef ELSE ObjVal],
              normalizeISO8601(GetProp(input, "purchaseTime")))

\* ------------------------------------------------------- order repository
\* characters of a PartnerId
PartnerChars(partnerId) ==
  IF partnerId = PARTNER_A THEN <<"P","A","R","T","N","E","R","_","A">>
  ELSE <<"P","A","R","T","N","E","R","_","B">>

\* InMemoryOrderRepository.getExternalKey: `${partnerId}:${externalOrderId}`
getExternalKey(externalOrderId, partnerId) ==
  Str(PartnerChars(partnerId) \o <<":">> \o ToChars(externalOrderId))

\* save that keeps the index entry of an external id that has one
save_firstWins(repo, order) ==
  [orders |-> MapSet(repo.orders, order.id, order),
   externalIdIndex |->
     IF MapHas(repo.externalIdIndex, getExternalKey(order.externalOrderId, order.partnerId))
     THEN repo.externalIdIndex
     ELSE MapSet(repo.externalIdIndex,
                 getExternalKey(order.externalOrderId, order.partnerId), order.id)]

\* InMemoryOrderRepository.save, on repo = [orders, externalIdIndex]
save(repo, order) ==
  [orders |-> MapSet(repo.orders, order.id, order),
   externalIdIndex |-> MapSet(repo.externalIdIndex,
                              getExternalKey(order.externalOrderId, order.partnerId),
                              order.id)]

\* InMemoryOrderRepository.findById: <<>> is null, <<o>> the order found
findById(repo, id) ==
  IF MapHas(repo.orders, id) THEN <<MapGet(repo.orders, id)>> ELSE <<>>

\* InMemoryOrderRepository.findByExternalId: <<>> is null, <<o>> the order found
findByExternalId(repo, externalOrderId, partnerId) ==
  LET key == getExternalKey(externalOrderId, partnerId)
  IN IF ~MapHas(repo.externalIdIndex, key) THEN <<>>
     ELSE LET id == MapGet(repo.externalIdIndex, key)
          IN IF Falsy(id) THEN <<>> ELSE findById(repo, id)

\* InMemoryOrderRepository.clear
clear(repo) == [orders |-> <<>>, externalIdIndex |-> <<>>]

\* InMemoryOrderRepository.existsByExternalId
existsByExternalId(repo, externalOrderId, partnerId) ==
  MapHas(repo.externalIdIndex, getExternalKey(externalOrderId, partnerId))


\* -------------------------------------------------------- error repository
\* uuidv4(): the k-th identifier generated, distinct for distinct k
uuidv4(k) == Str(<<"u">> \o Digits(k))

\* InMemoryErrorRepository.save, on errors = the Map of stored error events
\* and uuids = the number of identifiers generated so far
errorSave(errors, uuids, error) ==
  LET id == IF Falsy(error.id) THEN uuidv4(uuids + 1) ELSE error.id
      n == IF Falsy(error.id) THEN uuids + 1 ELSE uuids
  IN [errors |-> MapSet(errors, id, [error EXCEPT !.id = id]), uuidCount |-> n]

\* ----------------------------------------------------------- JSON text
\* A JSON text is the sequence of its tokens [k, v]: k is "punct", "string"
\* or "number" and v the characters of the token.
Punct(c) == [k |-> "punct", v |-> <<c>>]

JsonString(chars) == [k |-> "string", v |-> chars]

JsonNumber(n) == [k |-> "number", v |-> Digits(n)]

\* the members of a JSON object, separated by commas
RECURSIVE JsonMembers(_)
JsonMembers(entries) ==
  IF entries = <<>> THEN <<>>
  ELSE <<JsonString(PartnerChars(Head(entries).k)), Punct(":"), JsonNumber(Head(entries).v)>>
       \o (IF Tail(entries) = <<>> THEN <<>> ELSE <<Punct(",")>> \o JsonMembers(Tail(entries)))

\* JSON.stringify(Object.fromEntries(this.sequences), null, 2): the entries
\* of the Map become the members of one object, in insertion order
stringifySequences(seqs) == <<Punct("{")>> \o JsonMembers(seqs) \o <<Punct("}")>>

\* the PartnerId a member name spells
PartnerOfChars(chars) == CHOOSE p \in PartnerIds : PartnerChars(p) = chars

\* Object.entries(JSON.parse(data)) for the members between the braces,
\* set into the Map one after the other
RECURSIVE parseMembers(_, _)
parseMembers(tokens, seqs) ==
  IF Len(tokens) < 3 THEN seqs
  ELSE LET set == MapSet(seqs, PartnerOfChars(tokens[1].v), ParseDigits(tokens[3].v))
       IN IF Len(tokens) = 3 THEN set
          ELSE parseMembers(SubSeq(tokens, 5, Len(tokens)), set)

\* ------------------------------------------------- file sequence manager
\* a file of the data directory: whether it exists, whether it holds no
\* byte, and its text
NoFile == [exists |-> FALSE, empty |-> TRUE, text |-> <<>>]

FileOf(text) == [exists |-> TRUE, empty |-> FALSE, text |-> text]

\* a file that was opened for writing and received nothing
EmptyFile == [exists |-> TRUE, empty |-> TRUE, text |-> <<>>]

\* what fs.writeFileSync(path, text) does to the file: it is "written", or
\* the open is "refused" and the file stays as it was, or the open
\* truncates the file and the write fails, "truncated"
WriteOutcomes == {"written", "refused", "truncated"}

writeFileSync(file, text, outcome) ==
  CASE outcome = "written" -> FileOf(text)
    [] outcome = "refused" -> file
    [] outcome = "truncated" -> EmptyFile

\* a file JSON.parse can read; on a file of no byte it throws, and the
\* catch of loadFromFile leaves the adapter empty
Readable(file) == file.exists /\ ~file.empty

\* FileSequenceManager.loadFromFile: the Map of a new manager
loadFromFile(file) ==
  IF Readable(file)
  THEN parseMembers(SubSeq(file.text, 2, Len(file.text) - 1), <<>>)
  ELSE <<>>

\* saveToFile that skips the write
saveToFile_skipped(file, seqs, outcome) == file

\* FileSequenceManager.saveToFile: when writeFileSync throws the error is
\* caught and logged
saveToFile(file, seqs, outcome) ==
  writeFileSync(file, stringifySequences(seqs), outcome)

\* ------------------------------------------------------ debounced writes
SequenceWriter == "sequences.json"

OrderWriter == "orders.json"

ErrorWriter == "errors.json"

Writers == {SequenceWriter, OrderWriter, ErrorWriter}

\* the writers that have a flush method
Flushable == {SequenceWriter, OrderWriter}

\* the event loop's timers are loop = [saveTimeout, timers, timerCount]:
\* saveTimeout[w] is the handle writer w keeps (0 is null), timers the set
\* of timers that were set and have neither fired nor been cleared
NoTimers ==
  [saveTimeout |-> [w \in Writers |-> 0], timers |-> {}, timerCount |-> 0]

\* clearTimeout(handle): no effect on a timer that has fired
clearTimeout(timers, handle) == {t \in timers : t.id # handle}

\* the timers of a writer that are pending
Pending(loop, writer) == {t \in loop.timers : t.owner = writer}

\* scheduleSave that sets a new timer and leaves the old one running
scheduleSave_noClear(loop, writer) ==
  LET handle == loop.timerCount + 1
  IN [saveTimeout |-> [loop.saveTimeout EXCEPT ![writer] = handle],
      timers |-> loop.timers \cup {[id |-> handle, owner |-> writer]},
      timerCount |-> handle]

\* scheduleSave of FileSequenceManager, FileOrderRepository and
\* FileErrorRepository: clear the timer the handle names, set a new one
scheduleSave(loop, writer) ==
  LET cleared == IF loop.saveTimeout[writer] # 0
                 THEN clearTimeout(loop.timers, loop.saveTimeout[writer])
                 ELSE loop.timers
      handle == loop.timerCount + 1
  IN [saveTimeout |-> [loop.saveTimeout EXCEPT ![writer] = handle],
      timers |-> cleared \cup {[id |-> handle, owner |-> writer]},
      timerCount |-> handle]

\* the first half of flush: clear the pending timer and null the handle
cancelSave(loop, writer) ==
  IF loop.saveTimeout[writer] # 0
  THEN [loop EXCEPT !.timers = clearTimeout(loop.timers, loop.saveTimeout[writer]),
                    !.saveTimeout[writer] = 0]
  ELSE loop

\* getNextSequence that leaves the increment of the counter to the write
fileGetNextSequence_deferred(seqs, loop, partnerId) ==
  LET next == getNextSequence(seqs, partnerId)
  IN [value |-> next.value, sequences |-> seqs,
      loop |-> scheduleSave(loop, SequenceWriter)]

\* FileSequenceManager.getNextSequence: the in-memory step of
\* getNextSequence followed by scheduleSave
fileGetNextSequence(seqs, loop, partnerId) ==
  LET next == getNextSequence(seqs, partnerId)
  IN [value |-> next.value, sequences |-> next.sequences,
      loop |-> scheduleSave(loop, SequenceWriter)]

\* FileSequenceManager.resetSequence
fileResetSequence(seqs, loop, partnerId) ==
  [sequences |-> MapDelete(seqs, partnerId), loop |-> scheduleSave(loop, SequenceWriter)]

\* FileSequenceManager.resetAll
fileResetAll(seqs, loop) ==
  [sequences |-> <<>>, loop |-> scheduleSave(loop, SequenceWriter)]

\* flush that clears the timer and writes nothing
flush_cancelOnly(file, seqs, loop, outcome) ==
  [file |-> file, loop |-> cancelSave(loop, SequenceWriter)]

\* FileSequenceManager.flush
flush(file, seqs, loop, outcome) ==
  [file |-> saveToFile(file, seqs, outcome), loop |-> cancelSave(loop, SequenceWriter)]

\* ------------------------------------------------------ file repositories
\* JSON.stringify of a value of a property: NaN and the infinities are
\* written as null, a Date as the string its toJSON returns, toISOString()
JsonOf(v) ==
  IF v \in {NotANumber, Infinity, NegativeInfinity} THEN Null
  ELSE IF v.t = "date" THEN [t |-> "iso", s |-> <<>>, day |-> v.day, ms |-> v.ms]
  ELSE v

\* JSON.stringify of a payload: a property of an object whose value is
\* undefined is left out, an element of an array that is undefined is
\* written as null
RECURSIVE JsonPayload(_)
JsonPayload(p) ==
  CASE p.root = "object" ->
         Obj([k \in {g \in DOMAIN p.f : p.f[g] # Undef} |-> JsonOf(p.f[k])])
    [] p.root = "array" ->
         ArrayOf([i \in 1..Len(p.f) |->
                    IF p.f[i].root = "undefined" THEN NullPayload ELSE JsonPayload(p.f[i])])
    [] OTHER -> p

\* JSON.stringify of an OrderEvent: a property whose value is undefined is
\* left out
stringifyOrder(o) ==
  [f \in {g \in DOMAIN o : g = "partnerId" \/ o[g] # Undef} |->
     IF f = "partnerId" THEN o[f] ELSE JsonOf(o[f])]

\* JSON.stringify(Array.from(this.orders.values()), null, 2)
stringifyOrders(m) == [i \in 1..Len(m) |-> stringifyOrder(m[i].v)]

\* the properties an ErrorEvent can lack; one it lacks reads as undefined
ErrorEventOf(known) == known @@ [externalOrderId |-> Undef]

\* the properties of an ErrorEvent that hold one value
ErrorValues == {"id", "externalOrderId", "timestamp"}

\* JSON.stringify of an ErrorEvent: a property whose value is undefined is
\* left out
stringifyError(e) ==
  [f \in {g \in DOMAIN e : /\ g \in ErrorValues => e[g] # Undef
                           /\ g = "originalPayload" => e[g].root # "undefined"} |->
     CASE f \in ErrorValues -> JsonOf(e[f])
       [] f = "originalPayload" -> JsonPayload(e[f])
       [] OTHER -> e[f]]

\* JSON.stringify(Array.from(this.errors.values()), null, 2)
stringifyErrors(m) == [i \in 1..Len(m) |-> stringifyError(m[i].v)]

\* FileOrderRepository.saveToFile
saveOrdersToFile(file, repo, outcome) ==
  writeFileSync(file, stringifyOrders(repo.orders), outcome)

\* FileOrderRepository.loadFromFile: every order of the array is set into
\* the primary map and the index
RECURSIVE loadOrders(_, _)
loadOrders(objects, repo) ==
  IF objects = <<>> THEN repo
  ELSE loadOrders(Tail(objects), save(repo, OrderEventOf(Head(objects))))

loadOrdersFromFile(file) ==
  IF Readable(file) THEN loadOrders(file.text, [orders |-> <<>>, externalIdIndex |-> <<>>])
  ELSE [orders |-> <<>>, externalIdIndex |-> <<>>]

\* FileOrderRepository.save: the in-memory save followed by scheduleSave
fileSave(repo, loop, order) ==
  [repo |-> save(repo, order), loop |-> scheduleSave(loop, OrderWriter)]

\* FileOrderRepository.saveBatch: every order is set, without an await
\* between them, and one scheduleSave follows
RECURSIVE setOrders(_, _)
setOrders(repo, orderList) ==
  IF orderList = <<>> THEN repo
  ELSE setOrders(save(repo, Head(orderList)), Tail(orderList))

fileSaveBatch(repo, loop, orderList) ==
  [repo |-> setOrders(repo, orderList), loop |-> scheduleSave(loop, OrderWriter)]

\* FileOrderRepository.clear
fileClear(repo, loop) ==
  [repo |-> [orders |-> <<>>, externalIdIndex |-> <<>>],
   loop |-> scheduleSave(loop, OrderWriter)]

\* FileOrderRepository.flush
flushOrders(file, repo, loop, outcome) ==
  [file |-> saveOrdersToFile(file, repo, outcome), loop |-> cancelSave(loop, OrderWriter)]

\* FileErrorRepository.saveToFile
saveErrorsToFile(file, errs, outcome) ==
  writeFileSync(file, stringifyErrors(errs), outcome)

\* FileErrorRepository.loadFromFile
RECURSIVE loadErrors(_, _)
loadErrors(objects, errs) ==
  IF objects = <<>> THEN errs
  ELSE loadErrors(Tail(objects), MapSet(errs, Head(objects).id, ErrorEventOf(Head(objects))))

loadErrorsFromFile(file) == IF Readable(file) THEN loadErrors(file.text, <<>>) ELSE <<>>

\* FileErrorRepository.save: give the event an id when it has none, store
\* it, scheduleSave
fileErrorSave(errs, uuids, loop, error) ==
  LET r == errorSave(errs, uuids, error)
  IN [errors |-> r.errors, uuidCount |-> r.uuidCount, loop |-> scheduleSave(loop, ErrorWriter)]

\* FileErrorRepository.clear
fileErrorClear(errs, loop) ==
  [errors |-> <<>>, loop |-> scheduleSave(loop, ErrorWriter)]

\* ----------------------------------------------------------------- stream
\* the listener createContainer subscribes to the valid-order stream
PersistOrder == "persistOrder"

\* the listener createContainer subscribes to the error-order stream
PersistError == "persistError"

\* the order repository of the container
RepoOf(sys) == [orders |-> sys.orders, externalIdIndex |-> sys.externalIdIndex]

\* the container with the order repository and the timers r holds
Stored(sys, r) ==
  [sys EXCEPT !.orders = r.repo.orders, !.externalIdIndex = r.repo.externalIdIndex,
              !.loop = r.loop]

\* orderRepository.save of the container, InMemoryOrderRepository.save or,
\* with persistence, FileOrderRepository.save; neither has a statement
\* that throws, so the promise it returns is fulfilled
containerSave(sys, order) ==
  IF sys.usePersistence
  THEN Stored(sys, fileSave(RepoOf(sys), sys.loop, order))
  ELSE Stored(sys, [repo |-> save(RepoOf(sys), order), loop |-> sys.loop])

\* body of the valid-order listener of createContainer:
\* await orderRepository.save(payload.orderEvent)
persistOrderListener(sys, payload) == containerSave(sys, payload.orderEvent)

\* the container with the error repository and the timers r holds
StoredError(sys, r) ==
  [sys EXCEPT !.errors = r.errors, !.uuidCount = r.uuidCount, !.loop = r.loop]

\* errorRepository.save of the container, with uuids the identifiers
\* generated so far
containerErrorSave(sys, uuids, event) ==
  IF sys.usePersistence
  THEN StoredError(sys, fileErrorSave(sys.errors, uuids, sys.loop, event))
  ELSE StoredError(sys, errorSave(sys.errors, uuids, event) @@ [loop |-> sys.loop])

\* body of the error-order listener of createContainer
persistErrorListener(sys, payload) ==
  containerErrorSave(
    sys, sys.uuidCount + 1,
    [id |-> uuidv4(sys.uuidCount + 1),
     partnerId |-> payload.partnerId,
     externalOrderId |-> payload.originalOrderId,
     errorCode |-> "INVALID_VALUE",
     message |-> "Validation failed",
     details |-> [i \in 1..Len(payload.errors) |->
                    [field |-> "validation", message |-> payload.errors[i]]],
     originalPayload |-> payload.rawInput,
     timestamp |-> Iso(payload.timestamp)])

\* one listener call made by EventEmitter.emit. The listeners of
\* createContainer are async functions that await a save whose promise is
\* fulfilled; emit drops the promise a listener returns
callListener(sys, listener, payload) ==
  IF listener = PersistOrder THEN persistOrderListener(sys, payload)
  ELSE IF listener = PersistError THEN persistErrorListener(sys, payload)
  ELSE sys

\* a failed write that is not caught: the exception leaves the callback of
\* the timer, and the process ends with what the adapters held in memory
timerCallback_uncaught(sys, writer, outcome) ==
  IF outcome = "written"
  THEN CASE writer = SequenceWriter ->
              [sys EXCEPT !.sequencesFile = saveToFile(@, sys.sequences, outcome)]
         [] writer = OrderWriter ->
              [sys EXCEPT !.ordersFile = saveOrdersToFile(@, RepoOf(sys), outcome)]
         [] OTHER ->
              [sys EXCEPT !.errorsFile = saveErrorsToFile(@, sys.errors, outcome)]
  ELSE [sys EXCEPT !.sequences = <<>>, !.validOrderHistory = <<>>,
                   !.errorOrderHistory = <<>>, !.orders = <<>>,
                   !.externalIdIndex = <<>>, !.errors = <<>>, !.loop = NoTimers]

\* the callback of the timer scheduleSave sets, () => this.saveToFile(), of
\* the adapter that set it: a write that fails is caught and logged
timerCallback(sys, writer, outcome) ==
  CASE writer = SequenceWriter ->
         [sys EXCEPT !.sequencesFile = saveToFile(@, sys.sequences, outcome)]
    [] writer = OrderWriter ->
         [sys EXCEPT !.ordersFile = saveOrdersToFile(@, RepoOf(sys), outcome)]
    [] OTHER ->
         [sys EXCEPT !.errorsFile = saveErrorsToFile(@, sys.errors, outcome)]

\* EventEmitter.emit: the listeners are called one after the other in the
\* order they were subscribed
RECURSIVE emit(_, _, _)
emit(sys, listeners, payload) ==
  IF listeners = <<>> THEN sys
  ELSE emit(callListener(sys, Head(listeners), payload), Tail(listeners), payload)

\* emitValidOrder without the push to the history
emitValidOrder_noHistory(sys, payload) == emit(sys, sys.validListeners, payload)

\* InMemoryOrderStream.emitValidOrder
emitValidOrder(sys, payload) ==
  emit([sys EXCEPT !.validOrderHistory = Append(@, payload)], sys.validListeners, payload)

\* emitErrorOrder without the push to the history
emitErrorOrder_noHistory(sys, payload) == emit(sys, sys.errorListeners, payload)

\* InMemoryOrderStream.emitErrorOrder
emitErrorOrder(sys, payload) ==
  emit([sys EXCEPT !.errorOrderHistory = Append(@, payload)], sys.errorListeners, payload)

\* ----------------------------------------------------------- feed handler
FeedResult(ok, orderId, partnerId, sequenceNumber, errors) ==
  [success |-> ok, orderId |-> orderId, partnerId |-> partnerId,
   sequenceNumber |-> sequenceNumber, errors |-> errors]

\* the outcome of a call: whether it threw, the system after it, and the
\* value it returned when it did not throw
Returned(sys, result) == [threw |-> FALSE, sys |-> sys, result |-> result]

\* an exception left the call
Threw(sys, partnerId) ==
  [threw |-> TRUE, sys |-> sys, result |-> FeedResult(FALSE, Undef, partnerId, Undef, <<>>)]

\* the failure branch of a handler that takes the sequence number before
\* it validates
rejectOrder_consuming(sys, partnerId, orderId, input, errors) ==
  Returned(emitErrorOrder([sys EXCEPT !.sequences =
                                        getNextSequence(sys.sequences, partnerId).sequences],
                          [partnerId |-> partnerId,
                           originalOrderId |-> orderId,
                           errors |-> errors,
                           rawInput |-> input,
                           timestamp |-> Now]),
           FeedResult(FALSE, orderId, partnerId, Undef, errors))

\* FeedHandler.processPartnerAOrder / processPartnerBOrder, the branch taken
\* when validation fails: route to the error stream and return the failure
rejectOrder(sys, partnerId, orderId, input, errors) ==
  Returned(emitErrorOrder(sys, [partnerId |-> partnerId,
                                originalOrderId |-> orderId,
                                errors |-> errors,
                                rawInput |-> input,
                                timestamp |-> Now]),
           FeedResult(FALSE, orderId, partnerId, Undef, errors))

\* steps 3 and 4 behind the call of the transformer: its exception leaves
\* the handler, its order event goes to the valid stream
routeOrder(sequenced, partnerId, orderId, sequenceNumber, orderEvent) ==
  IF Thrown(orderEvent) THEN Threw(sequenced, partnerId)
  ELSE Returned(emitValidOrder(sequenced, [orderEvent |-> orderEvent, receivedAt |-> Now]),
                FeedResult(TRUE, orderId, partnerId, Num(sequenceNumber), <<>>))

\* routeOrder with the number and the container next holds
routeSequenced(next, partnerId, orderId, orderEvent) ==
  routeOrder(next.sys, partnerId, orderId, next.value, orderEvent)

\* the number r holds and the container with the counters and the timers
\* r holds
Sequenced(sys, r) ==
  [value |-> r.value, sys |-> [sys EXCEPT !.sequences = r.sequences, !.loop = r.loop]]

\* sequenceManager.getNextSequence(partnerId) of the container, of
\* InMemorySequenceManager or, with persistence, FileSequenceManager: the
\* number returned and the container after the call
nextSequence(sys, partnerId) ==
  IF sys.usePersistence
  THEN Sequenced(sys, fileGetNextSequence(sys.sequences, sys.loop, partnerId))
  ELSE Sequenced(sys, getNextSequence(sys.sequences, partnerId) @@ [loop |-> sys.loop])

\* FeedHandler.processPartnerAOrder / processPartnerBOrder, steps 2 to 4:
\* take the next sequence number, transform (an exception of the transformer
\* leaves the call with the number taken), route to the valid stream.
\* The handler passes sequenceNumber to transformPartnerA / transformPartnerB
\* as a second argument, which these one-parameter methods ignore.
acceptOrder(sys, partnerId, orderId, input) ==
  routeSequenced(nextSequence(sys, partnerId), partnerId, orderId,
                 IF partnerId = PARTNER_A THEN transformPartnerA(input)
                 ELSE transformPartnerB(input))

\* steps 1 to 4 behind the read of the order id: validate, then reject
\* or accept
processValidated(sys, partnerId, orderId, input, validationResult) ==
  IF ~validationResult.isValid
  THEN rejectOrder(sys, partnerId, orderId, input, validationResult.errors)
  ELSE acceptOrder(sys, partnerId, orderId, input)

\* FeedHandler.processPartnerAOrder. Reading input.orderId throws a
\* TypeError when input is null.
processPartnerAOrder(sys, input) ==
  IF Thrown(GetProp(input, "orderId")) THEN Threw(sys, PARTNER_A)
  ELSE processValidated(sys, PARTNER_A, GetProp(input, "orderId"), input,
                        validatePartnerA(input))

\* FeedHandler.processPartnerBOrder. Reading input.transactionId throws a
\* TypeError when input is null.
processPartnerBOrder(sys, input) ==
  IF Thrown(GetProp(input, "transactionId")) THEN Threw(sys, PARTNER_B)
  ELSE processValidated(sys, PARTNER_B, GetProp(input, "transactionId"), input,
                        validatePartnerB(input))

\* FeedHandler.processPartnerAOrder / processPartnerBOrder by partner
processOrder(sys, partnerId, input) ==
  IF partnerId = PARTNER_A THEN processPartnerAOrder(sys, input)
  ELSE processPartnerBOrder(sys, input)

\* inputs.map((input) => this.process...Order(input)): the elements are
\* processed from left to right; an exception of one call ends the map and
\* loses the results collected so far. `results` are the values returned by
\* the calls that completed.
RECURSIVE mapProcess(_, _, _, _)
\* behind the call r of the callback for one element
mapProcessed(r, partnerId, rest, results) ==
  IF r.threw THEN [threw |-> TRUE, sys |-> r.sys, results |-> results]
  ELSE mapProcess(r.sys, partnerId, rest, Append(results, r.result))

mapProcess(sys, partnerId, inputs, results) ==
  IF inputs = <<>> THEN [threw |-> FALSE, sys |-> sys, results |-> results]
  ELSE mapProcessed(processOrder(sys, partnerId, Head(inputs)), partnerId, Tail(inputs),
                    results)

\* FeedHandler.processPartnerABatch
processPartnerABatch(sys, inputs) == mapProcess(sys, PARTNER_A, inputs, <<>>)

\* FeedHandler.processPartnerBBatch
processPartnerBBatch(sys, inputs) == mapProcess(sys, PARTNER_B, inputs, <<>>)

\* ----------------------------------------------------------------- inputs
O1 == <<"O", "1">>

O2 == <<"O", "2">>

T1 == <<"T", "1">>

\* a well-formed Partner A payload with the given orderId
ValidA(orderId) ==
  Obj([orderId |-> Str(orderId), skuId |-> Str(<<"S">>), customerId |-> Str(<<"C">>),
       quantity |-> Num(500), unitPrice |-> Num(1999), taxRate |-> Num(800),
       transactionTimeMs |-> Num(28421910)])

\* a well-formed Partner B payload with the given transactionId
ValidB(transactionId) ==
  Obj([transactionId |-> Str(transactionId), itemCode |-> Str(<<"I">>),
       clientId |-> Str(<<"C">>), qty |-> Num(300), price |-> Num(2999),
       tax |-> Num(850), purchaseTime |-> Str(Date20240115)])

\* quantity: -5
NegativeQuantityA == Obj([ValidA(O1).f EXCEPT !.quantity = Num(-500)])

\* orderId: ' '
BlankOrderIdA == Obj([ValidA(O1).f EXCEPT !.orderId = Str(<<" ">>)])

\* { orderId: 'O2' } and nothing else
MissingFieldsA == Obj([orderId |-> Str(O2)])

\* qty: -1
NegativeQtyB == Obj([ValidB(T1).f EXCEPT !.qty = Num(-100)])

\* purchaseTime: '2024-13-45'
BadTimeB == Obj([ValidB(T1).f EXCEPT !.purchaseTime = Str(Date20241345)])

\* purchaseTime: '2024-01-15 10:30:45'
SpacedTimeB == Obj([ValidB(T1).f EXCEPT !.purchaseTime = Str(DateTime20240115)])

\* unitPrice: 1e999, which JSON.parse reads as Infinity
InfinitePriceA == Obj([ValidA(O2).f EXCEPT !.unitPrice = Infinity])

\* payloads submitted one at a time
InputsA ==
  {ValidA(O1), ValidA(O2), InfinitePriceA, NegativeQuantityA, BlankOrderIdA, MissingFieldsA}

InputsB == {ValidB(T1), ValidB(O1), SpacedTimeB, NegativeQtyB, BadTimeB}

\* elements of the arrays submitted as a batch; a JSON array can hold null
BatchInputsA == {ValidA(O1), NegativeQuantityA, NullPayload}

BatchInputsB == {ValidB(T1), NegativeQtyB, NullPayload}

BatchInputs(partnerId) == IF partnerId = PARTNER_A THEN BatchInputsA ELSE BatchInputsB

Batches(partnerId) ==
  UNION {[1..n -> BatchInputs(partnerId)] : n \in 0..MaxBatch}

\* ----------------------------------------------------------- stored orders
\* an OrderEvent as OrderTransformer.fromPartnerA / fromPartnerB builds it
Order(id, partnerId, externalOrderId, customerId, grossAmount, transactionTime, sequenceNumber) ==
  OrderEventOf([id |-> Str(id),
                externalOrderId |-> Str(externalOrderId),
                partnerId |-> partnerId,
                sequenceNumber |-> Num(sequenceNumber),
                productId |-> Str(<<"S">>),
                customerId |-> Str(customerId),
                quantity |-> Num(100),
                unitPrice |-> Num(grossAmount),
                taxRate |-> Num(0),
                grossAmount |-> Num(grossAmount),
                taxAmount |-> Num(0),
                netAmount |-> Num(grossAmount),
                transactionTime |-> Iso(transactionTime),
                processedAt |-> Iso(Now)])

\* two orders of Partner A with the same external id (the second a
\* reprocessing of the first) and one order of Partner B
OrderR1 == Order(<<"r", "1">>, PARTNER_A, O1, <<"C">>, 9995, 28421910, 1)

OrderR2 == Order(<<"r", "2">>, PARTNER_A, O1, <<"D">>, 20000, 28423350, 2)

OrderR3 == Order(<<"r", "3">>, PARTNER_B, T1, <<"C">>, 8997, 28424790, 1)

\* the order r1 saved again after its externalOrderId was changed to O2
OrderR1Moved == Order(<<"r", "1">>, PARTNER_A, O2, <<"C">>, 9995, 28421910, 1)

\* an ErrorEvent handed to the error repository without an id
ErrorE1 ==
  [id |-> Undef, partnerId |-> PARTNER_A, externalOrderId |-> Str(O1),
   errorCode |-> "INVALID_VALUE", message |-> "Validation failed",
   details |-> <<>>, originalPayload |-> NegativeQuantityA, timestamp |-> Iso(Now)]

\* ------------------------------------------------------ stream subscribers
\* a listener that handles the event and returns
SyncListener == "syncListener"

\* a listener that throws while it handles the event
ThrowingListener == "throwingListener"

\* an async listener: it starts when it is called, returns a promise to
\* emit and completes in a later turn of the event loop
AsyncListener == "asyncListener"

\* a listener that, while it handles the event, subscribes SyncListener to
\* the kind of the event
SubscribingListener == "subscribingListener"

\* a listener that, while it handles the event, unsubscribes SyncListener
\* from the kind of the event
UnsubscribingListener == "unsubscribingListener"

Listeners ==
  {SyncListener, ThrowingListener, AsyncListener, SubscribingListener,
   UnsubscribingListener}

ValidKind == "valid_order"

ErrorKind == "error_order"

\* EventEmitter.off / removeListener: remove the most recently added
\* instance of the listener, if there is one
removeListener(listeners, listener) ==
  IF \E i \in 1..Len(listeners) : listeners[i] = listener
  THEN LET last_i == CHOOSE i \in 1..Len(listeners) :
                       /\ listeners[i] = listener
                       /\ \A j \in (i + 1)..Len(listeners) : listeners[j] # listener
       IN SubSeq(listeners, 1, last_i - 1) \o SubSeq(listeners, last_i + 1, Len(listeners))
  ELSE listeners

\* the call of one listener by EventEmitter.emit, on run = [called, running,
\* overlapped, threw, listeners]: `called` the listeners this emit has
\* called so far, `running` the bag of the calls of async listeners that
\* have not completed, `overlapped` the calls that started while an earlier call of
\* the same listener was running, `listeners` the listeners subscribed to
\* the kind now
invoke(run, listener, event) ==
  LET called == Append(run.called, listener)
  IN IF listener = ThrowingListener
     THEN [run EXCEPT !.called = called, !.threw = TRUE]
     ELSE IF listener = AsyncListener
     THEN [run EXCEPT !.called = called,
                      !.running = @ (+) SetToBag({[listener |-> listener, event |-> event]}),
                      !.overlapped =
                         IF \E r \in BagToSet(run.running) : r.listener = listener
                         THEN @ \cup {[listener |-> listener, event |-> event]}
                         ELSE @]
     ELSE IF listener = SubscribingListener
     THEN [run EXCEPT !.called = called, !.listeners = Append(@, SyncListener)]
     ELSE IF listener = UnsubscribingListener
     THEN [run EXCEPT !.called = called, !.listeners = removeListener(@, SyncListener)]
     ELSE [run EXCEPT !.called = called]

\* an emit that walks the array of listeners itself, by position, and so
\* sees the subscriptions made and removed while it runs
RECURSIVE emitTo_live(_, _, _)
emitTo_live(run, listeners, event) ==
  IF Len(run.called) >= Len(run.listeners) \/ run.threw THEN run
  ELSE emitTo_live(invoke(run, run.listeners[Len(run.called) + 1], event), listeners, event)

\* EventEmitter.emit(kind, payload): the listeners subscribed at entry (emit
\* walks a copy of the array) are called one after the other in subscription
\* order; an exception of a listener ends the loop and leaves emit
RECURSIVE emitTo(_, _, _)
emitTo(run, listeners, event) ==
  IF listeners = <<>> \/ run.threw THEN run
  ELSE emitTo(invoke(run, Head(listeners), event), Tail(listeners), event)

\* ------------------------------------------------------ repository queries
\* a Date of a time value
DateAt(time) == [t |-> "date", s |-> <<>>, day |-> time.day, ms |-> time.ms]

\* a Date of a filter, on the minute it denotes
DateOf(minutes) == DateAt(TimeOfMinutes(minutes))

\* OrderQueryFilters: a property that is not given is undefined
FiltersOf(known) ==
  known @@
  [partnerId |-> Undef, customerId |-> Undef, productId |-> Undef, fromDate |-> Undef,
   toDate |-> Undef, minAmount |-> Undef, maxAmount |-> Undef]

\* findMany and count called without filters
NoFilters == FiltersOf([partnerId |-> Undef])

\* a < b on two time values or infinities, false when either is NaN
TimeLess(a, b) ==
  CASE a.t = "time" /\ b.t = "time" -> a.day < b.day \/ (a.day = b.day /\ a.ms < b.ms)
    [] a.t = "time" /\ b.t # "time" -> b.t = "Infinity"
    [] a.t = "-Infinity" -> b.t \in {"time", "Infinity"}
    [] OTHER -> FALSE

\* the time value of a number of milliseconds carried in hundredths
TimeOfHundredths(h) ==
  CASE h.t # "number" -> h
    [] h.t = "number" /\ h.n % 100 = 0 ->
         Time((h.n \div 100) \div 86400000, (h.n \div 100) % 86400000)
    [] OTHER -> Unrepresented(h)

\* the number a Date is compared with in `date < v`: the time value of a
\* Date, the number itself, 0 for null, the number a string or the string
\* of an array spells (NaN for a date string), NaN for any other value
ComparedTime(v) ==
  CASE v.t = "date" -> Time(v.day, v.ms)
    [] v.t = "number" -> TimeOfMinutes(v.n)
    [] v.t \in {"Infinity", "-Infinity"} -> v
    [] v.t = "null" -> Time(0, 0)
    [] v.t \in {"string", "list"} ->
         TimeOfHundredths(StringToNumber(IF v.t = "string" THEN v.s ELSE Joined(v.items)))
    [] OTHER -> NotANumber

\* the predicate of InMemoryOrderRepository.applyFilters, with orderDate
\* the time value of new Date(order.transactionTime) and compared[f] the
\* number the Date is compared with for the filter f
matchesOn(order, filters, orderDate, compared) ==
  /\ \A f \in {"partnerId", "customerId", "productId"} :
       ~(/\ ~Falsy(filters[f])
         /\ ~StrictEquals(IF f = "partnerId" THEN Str(PartnerChars(order.partnerId))
                          ELSE order[f],
                          filters[f]))
  /\ ~(~Falsy(filters.fromDate) /\ TimeLess(orderDate, compared.fromDate))
  /\ ~(~Falsy(filters.toDate) /\ TimeLess(compared.toDate, orderDate))
  /\ ~(filters.minAmount # Undef /\ JsLess(order.grossAmount, filters.minAmount))
  /\ ~(filters.maxAmount # Undef /\ JsLess(filters.maxAmount, order.grossAmount))

\* the predicate of InMemoryOrderRepository.applyFilters
matches(order, filters) ==
  matchesOn(order, filters, TimeOf(order.transactionTime),
            [f \in {"fromDate", "toDate"} |-> ComparedTime(filters[f])])

\* InMemoryOrderRepository.applyFilters
applyFilters(orderList, filters) == SelectSeq(orderList, LAMBDA o : matches(o, filters))

\* SortOptions, and findMany called without sort
SortBy(field, direction) == [given |-> TRUE, field |-> field, direction |-> direction]

NoSort == [given |-> FALSE, field |-> "processedAt", direction |-> "desc"]

\* x - y on two numbers as Array.prototype.sort reads it: a NaN comparison
\* is +0, and of an infinite difference the sign is kept
NumberDifference(x, y) ==
  CASE x.t = "number" /\ y.t = "number" -> x.n - y.n
    [] x.t = "Infinity" /\ y.t \in {"number", "-Infinity"} -> 1
    [] x.t = "number" /\ y.t = "-Infinity" -> 1
    [] x.t = "-Infinity" /\ y.t \in {"number", "Infinity"} -> 0 - 1
    [] x.t = "number" /\ y.t = "Infinity" -> 0 - 1
    [] OTHER -> 0

\* the first of two numbers less the second
FirstDifference(numbers) == NumberDifference(numbers[1], numbers[2])

\* a - b as Array.prototype.sort reads it, on the numbers the operands
\* convert to, of which `unit` make 1
Difference(a, b, unit) ==
  FirstDifference([i \in 1..2 |-> ToNumber(<<a, b>>[i], unit)])

\* a.getTime() - b.getTime() as Array.prototype.sort reads it: a NaN
\* comparison is +0; the difference is counted in minutes rounded down,
\* less than a minute in front counts as one, and a difference of more
\* than a million days counts as that many days
TimeDifference(a, b) ==
  IF a.t # "time" \/ b.t # "time" THEN 0
  ELSE IF a.day - b.day > 1000000 \/ b.day - a.day > 1000000 THEN a.day - b.day
  ELSE IF (a.day - b.day) * 1440 + (a.ms - b.ms) \div 60000 = 0
          /\ (a.ms - b.ms) % 60000 > 0
  THEN 1
  ELSE (a.day - b.day) * 1440 + (a.ms - b.ms) \div 60000

\* the comparator of InMemoryOrderRepository.applySorting
compare(a, b, sort) ==
  IF ~sort.given
  THEN TimeDifference(TimeOf(b.processedAt), TimeOf(a.processedAt))
  ELSE LET direction == IF sort.direction = "asc" THEN 1 ELSE -1
           comparison ==
             CASE sort.field = "processedAt" ->
                    TimeDifference(TimeOf(a.processedAt), TimeOf(b.processedAt))
               [] sort.field = "transactionTime" ->
                    TimeDifference(TimeOf(a.transactionTime), TimeOf(b.transactionTime))
               [] sort.field \in {"grossAmount", "sequenceNumber"} ->
                    Difference(a[sort.field], b[sort.field],
                               IF sort.field = "grossAmount" THEN 100 ELSE 1)
               [] OTHER -> 0
       IN comparison * direction

\* Array.prototype.sort of an array of fewer than 64 elements, as V8 does
\* it: the array is one run of its merge sort. `work` holds the positions
\* of the elements in the array handed in, and order[i, j] is what the
\* comparator returns for the elements of positions i and j.
\*
\* the length of the run the array begins with, counted from `length`
RECURSIVE runLength(_, _, _, _)
runLength(work, order, descending, length) ==
  IF length >= Len(work) THEN length
  ELSE LET o == order[work[length + 1], work[length]]
       IN IF (descending /\ o >= 0) \/ (~descending /\ o < 0) THEN length
          ELSE runLength(work, order, descending, length + 1)

\* CountAndMakeRun: a strictly descending run is reversed in place
CountAndMakeRun(work, order) ==
  LET descending == order[work[2], work[1]] < 0
      n == runLength(work, order, descending, 2)
  IN [work |-> IF descending
               THEN [i \in 1..Len(work) |-> IF i <= n THEN work[n + 1 - i] ELSE work[i]]
               ELSE work,
      runLength |-> n]

\* the binary search of BinaryInsertionSort for the place of the pivot
\* among the sorted elements of positions left..(right - 1)
RECURSIVE bisect(_, _, _, _, _)
bisect(work, order, pivot, left, right) ==
  IF left >= right THEN left
  ELSE LET mid == left + ((right - left) \div 2)
       IN IF order[pivot, work[mid]] < 0 THEN bisect(work, order, pivot, left, mid)
          ELSE bisect(work, order, pivot, mid + 1, right)

\* BinaryInsertionSort: the elements from position `start` on are inserted
\* one after the other into the sorted elements in front of them
RECURSIVE BinaryInsertionSort(_, _, _)
BinaryInsertionSort(work, order, start) ==
  IF start > Len(work) THEN work
  ELSE LET pivot == work[start]
           left == bisect(work, order, pivot, 1, start)
       IN BinaryInsertionSort(SubSeq(work, 1, left - 1) \o <<pivot>>
                                \o SubSeq(work, left, start - 1)
                                \o SubSeq(work, start + 1, Len(work)),
                              order, start + 1)

ArraySort(list, order) ==
  IF Len(list) < 2 THEN list
  ELSE LET run == CountAndMakeRun([i \in 1..Len(list) |-> i], order)
           work == BinaryInsertionSort(run.work, order, run.runLength + 1)
       IN [k \in 1..Len(list) |-> list[work[k]]]

\* InMemoryOrderRepository.applySorting
applySorting(orderList, sort) ==
  ArraySort(orderList,
            [i \in 1..Len(orderList), j \in 1..Len(orderList) |->
               compare(orderList[i], orderList[j], sort)])

\* PaginationOptions; findMany called without pagination reads both as undefined
Pagination(page, pageSize) == [page |-> page, pageSize |-> pageSize]

NoPagination == Pagination(Undef, Undef)

\* the index in 0..len an argument of slice names: NaN reads as 0, a
\* negative number counts from the end
SliceIndex(v, len) ==
  CASE v.t = "number" -> (IF v.n < 0 THEN (IF len + v.n < 0 THEN 0 ELSE len + v.n)
                          ELSE (IF v.n > len THEN len ELSE v.n))
    [] v.t = "Infinity" -> len
    [] OTHER -> 0

\* Array.prototype.slice(start, end) on two numbers
slice(list, start, end) ==
  SubSeq(list, SliceIndex(start, Len(list)) + 1, SliceIndex(end, Len(list)))

\* Math.floor(total / pageSize) in the place of Math.ceil
ceilDiv_floor(total, pageSize) ==
  IF pageSize = 0 THEN (IF total = 0 THEN NotANumber ELSE Infinity)
  ELSE IF pageSize > 0 THEN Num(total \div pageSize)
  ELSE Num(0 - ((total + (0 - pageSize) - 1) \div (0 - pageSize)))

\* Math.ceil(total / pageSize), total >= 0
ceilDiv(total, pageSize) ==
  IF pageSize = 0 THEN (IF total = 0 THEN NotANumber ELSE Infinity)
  ELSE IF pageSize > 0 THEN Num((total + pageSize - 1) \div pageSize)
  ELSE Num(0 - (total \div (0 - pageSize)))

\* Array.from(this.orders.values())
values(m) == [i \in 1..Len(m) |-> m[i].v]

\* Math.ceil(total / pageSize) for the number pageSize converts to: an
\* infinite one gives 0, NaN gives NaN
totalPagesOf(total, size) ==
  CASE size.t = "number" -> ceilDiv(total, size.n)
    [] size.t \in {"Infinity", "-Infinity"} -> Num(0)
    [] OTHER -> NotANumber

\* startIndex + pageSize: the sum of two numbers, or, for a pageSize that
\* is a string or an object, the two strings one after the other, read by
\* slice as the number they spell
endIndex(startIndex, pageSize, size) ==
  IF IsStringy(pageSize) \/ pageSize.t = "date"
  THEN Rescaled(StringToNumber(ToChars(startIndex) \o ToChars(pageSize)), 1)
  ELSE Plus(startIndex, size)

\* the result of findMany for the page that starts at startIndex; `first`
\* and `size` are the numbers page and pageSize convert to, and totalPages,
\* with which page is compared, is a number
paged(results, page, pageSize, first, size, startIndex) ==
  [data |-> slice(results, startIndex, endIndex(startIndex, pageSize, size)),
   total |-> Len(results), page |-> page, pageSize |-> pageSize,
   totalPages |-> totalPagesOf(Len(results), size),
   hasMore |-> NumberLess(first, totalPagesOf(Len(results), size))]

\* the statements behind `page` and `pageSize` at the end of findMany, with
\* startIndex = (page - 1) * pageSize
pageOf(results, page, pageSize, numbers) ==
  paged(results, page, pageSize, numbers[1], numbers[2],
        Times(Minus(numbers[1], Num(1)), numbers[2]))

\* page and pageSize and the numbers they convert to
pageAt(results, given) ==
  pageOf(results, given[1], given[2], [i \in 1..2 |-> ToNumber(given[i], 1)])

\* the pagination at the end of InMemoryOrderRepository.findMany:
\* pagination?.page ?? 1 and pagination?.pageSize ?? 20 are read as they
\* were given
paginate(results, pagination) ==
  pageAt(results,
         <<IF pagination.page \in {Undef, Null} THEN Num(1) ELSE pagination.page,
           IF pagination.pageSize \in {Undef, Null} THEN Num(20) ELSE pagination.pageSize>>)

\* InMemoryOrderRepository.findMany
findMany(repo, filters, pagination, sort) ==
  paginate(applySorting(applyFilters(values(repo.orders), filters), sort), pagination)

\* InMemoryOrderRepository.count
count(repo, filters) == Len(applyFilters(values(repo.orders), filters))

\* InMemoryOrderRepository.saveBatch from the head of the loop to the next
\* await: with no order left the loop ends and the promise resolves,
\* otherwise the order is saved and the method suspends
saveBatchStep(repo, rest) ==
  IF rest = <<>>
  THEN [repo |-> repo, rest |-> <<>>, saved |-> <<>>, done |-> TRUE]
  ELSE [repo |-> save(repo, Head(rest)), rest |-> Tail(rest), saved |-> <<Head(rest)>>,
        done |-> FALSE]

\* InMemoryOrderRepository.saveBatch run to completion
RECURSIVE saveBatch(_, _)
saveBatch(repo, orderList) ==
  IF orderList = <<>> THEN repo ELSE saveBatch(save(repo, Head(orderList)), Tail(orderList))

\* ---------------------------------------------------------- error queries
\* ErrorQueryFilters: partnerId and errorCode are "" and fromDate and toDate
\* undefined when they are not given (every test on them is a truthiness test)
ErrorFilters(partnerId, errorCode, fromDate, toDate) ==
  [partnerId |-> partnerId, errorCode |-> errorCode, fromDate |-> fromDate,
   toDate |-> toDate]

\* results.sort((a, b) => new Date(b.timestamp).getTime() -
\* new Date(a.timestamp).getTime())
errorSort(results) ==
  ArraySort(results,
            [i \in 1..Len(results), j \in 1..Len(results) |->
               TimeDifference(TimeOf(results[j].timestamp), TimeOf(results[i].timestamp))])

\* the pagination at the end of findMany of both error repositories, which
\* has the statements of that of the order repository
errorPage(results, pagination) == paginate(results, pagination)

\* a >= b on two time values or infinities, false when either is NaN
TimeAtLeast(a, b) == a.t # "NaN" /\ b.t # "NaN" /\ ~TimeLess(a, b)

\* FileErrorRepository.findMany
fileErrorFindMany(errs, filters, pagination) ==
  LET results ==
        SelectSeq(values(errs),
                  LAMBDA e :
                    /\ filters.partnerId = "" \/ e.partnerId = filters.partnerId
                    /\ filters.errorCode = "" \/ e.errorCode = filters.errorCode
                    /\ Falsy(filters.fromDate)
                         \/ TimeAtLeast(TimeOf(e.timestamp), ComparedTime(filters.fromDate))
                    /\ Falsy(filters.toDate)
                         \/ TimeAtLeast(ComparedTime(filters.toDate), TimeOf(e.timestamp)))
  IN errorPage(errorSort(results), pagination)

\* FileErrorRepository.count
fileErrorCount(errs, filters) == fileErrorFindMany(errs, filters, NoPagination).total

\* InMemoryErrorRepository.findMany, which reads partnerId and errorCode of
\* the filters only
inMemoryErrorFindMany(errs, filters, pagination) ==
  LET results ==
        SelectSeq(values(errs),
                  LAMBDA e :
                    /\ filters.partnerId = "" \/ e.partnerId = filters.partnerId
                    /\ filters.errorCode = "" \/ e.errorCode = filters.errorCode)
  IN errorPage(errorSort(results), pagination)

\* InMemoryErrorRepository.count, which takes no filters: this.errors.size
inMemoryErrorCount(errs, filters) == Len(errs)

\* ------------------------------------------------- binary floating point
\* The magnitude of a double is held as the binary digits, least significant
\* first, of its multiple of 2^-Grid; every double met below is such a
\* multiple with at least Precision + 1 digits when it was rounded.
Grid == 64

Precision == 53

RECURSIVE Bits(_)
Bits(n) == IF n = 0 THEN <<>> ELSE <<n % 2>> \o Bits(n \div 2)

Bit(bits, i) == IF i \in 1..Len(bits) THEN bits[i] ELSE 0

\* without the zeros in front
RECURSIVE Normal(_)
Normal(bits) ==
  IF bits # <<>> /\ bits[Len(bits)] = 0 THEN Normal(SubSeq(bits, 1, Len(bits) - 1))
  ELSE bits

\* bits * 2^k
Shift(bits, k) == IF bits = <<>> THEN <<>> ELSE [i \in 1..k |-> 0] \o bits

RECURSIVE AddBits(_, _, _, _)
AddBits(a, b, i, carry) ==
  IF i > Len(a) /\ i > Len(b) THEN (IF carry = 1 THEN <<1>> ELSE <<>>)
  ELSE LET sum == Bit(a, i) + Bit(b, i) + carry
       IN <<sum % 2>> \o AddBits(a, b, i + 1, sum \div 2)

\* a - b for a >= b
RECURSIVE SubBits(_, _, _, _)
SubBits(a, b, i, borrow) ==
  IF i > Len(a) THEN <<>>
  ELSE LET d == Bit(a, i) - Bit(b, i) - borrow
       IN <<d % 2>> \o SubBits(a, b, i + 1, IF d < 0 THEN 1 ELSE 0)

LessBits(a, b) ==
  \/ Len(a) < Len(b)
  \/ /\ Len(a) = Len(b)
     /\ \E i \in 1..Len(a) : a[i] < b[i] /\ \A j \in (i + 1)..Len(a) : a[j] = b[j]

\* the quotient q and the remainder r of the digits by n, by long division:
\* `done` are those of the digits above digit i
RECURSIVE DivBits(_, _, _, _)
DivBits(bits, n, i, done) ==
  IF i = 0 THEN done
  ELSE IF 2 * done.r + bits[i] >= n
  THEN DivBits(bits, n, i - 1, [q |-> <<1>> \o done.q, r |-> 2 * done.r + bits[i] - n])
  ELSE DivBits(bits, n, i - 1, [q |-> <<0>> \o done.q, r |-> 2 * done.r + bits[i]])

\* round to nearest, ties to even, at Precision digits; `sticky` says that
\* the exact value lies above the digits
RoundBits(bits, sticky) ==
  LET drop == Len(bits) - Precision
  IN IF drop <= 0 THEN bits
     ELSE LET kept == [i \in 1..Len(bits) |-> IF i <= drop THEN 0 ELSE bits[i]]
              below == sticky \/ \E i \in 1..(drop - 1) : bits[i] = 1
          IN IF bits[drop] = 1 /\ (below \/ bits[drop + 1] = 1)
             THEN AddBits(kept, Shift(<<1>>, drop), 1, 0)
             ELSE kept

Abs(n) == IF n < 0 THEN 0 - n ELSE n

\* the double an amount of c hundredths is: c / 100 rounded
DoubleOf(c) ==
  LET scaled == Shift(Bits(Abs(c)), Grid)
      d == DivBits(scaled, 100, Len(scaled), [q |-> <<>>, r |-> 0])
  IN [neg |-> c < 0, bits |-> RoundBits(Normal(d.q), d.r # 0)]

\* x + y
DoubleAdd(x, y) ==
  IF x.neg = y.neg
  THEN [neg |-> x.neg, bits |-> RoundBits(AddBits(x.bits, y.bits, 1, 0), FALSE)]
  ELSE IF LessBits(x.bits, y.bits)
  THEN [neg |-> y.neg, bits |-> RoundBits(Normal(SubBits(y.bits, x.bits, 1, 0)), FALSE)]
  ELSE [neg |-> x.neg, bits |-> RoundBits(Normal(SubBits(x.bits, y.bits, 1, 0)), FALSE)]

\* x / n for an integer n > 0
DoubleDiv(x, n) ==
  LET d == DivBits(x.bits, n, Len(x.bits), [q |-> <<>>, r |-> 0])
  IN [neg |-> x.neg, bits |-> RoundBits(Normal(d.q), d.r # 0)]

\* x * 100
DoubleTimes100(x) ==
  [neg |-> x.neg,
   bits |-> RoundBits(AddBits(AddBits(Shift(x.bits, 6), Shift(x.bits, 5), 1, 0),
                              Shift(x.bits, 2), 1, 0), FALSE)]

\* ------------------------------------------------------------- statistics
\* a + b of a number a and a value b: the sum with the number b converts
\* to (0 for null, NaN for undefined); with a string or an object the
\* total becomes a string, which is not carried
Sum(a, b) ==
  IF IsStringy(b) \/ b.t = "date" THEN Unrepresented(b) ELSE Plus(a, ToNumber(b, 100))

\* `total += order[field]` over the orders, from 0: NaN once a value that is
\* not a number was added
RECURSIVE sumOf(_, _)
sumOf(orderList, field) ==
  IF orderList = <<>> THEN Num(0)
  ELSE Sum(sumOf(SubSeq(orderList, 1, Len(orderList) - 1), field),
           orderList[Len(orderList)][field])

\* the loop of getStatistics on highestSequence[partnerId]: raised from 0 by
\* every order whose sequenceNumber is greater
RECURSIVE highestOf(_, _)
highestOf(orderList, partnerId) ==
  IF orderList = <<>> THEN Num(0)
  ELSE LET highest == highestOf(SubSeq(orderList, 1, Len(orderList) - 1), partnerId)
           order == orderList[Len(orderList)]
       IN IF order.partnerId = partnerId /\ Less(highest, order.sequenceNumber, 1)
          THEN order.sequenceNumber
          ELSE highest

RECURSIVE SumSeq(_)
SumSeq(amounts) ==
  IF amounts = <<>> THEN 0 ELSE SumSeq(SubSeq(amounts, 1, Len(amounts) - 1)) + amounts[Len(amounts)]

\* `totalGrossAmount += order.grossAmount` over the orders from 0, in doubles
RECURSIVE doubleSum(_)
doubleSum(amounts) ==
  IF amounts = <<>> THEN [neg |-> FALSE, bits |-> <<>>]
  ELSE DoubleAdd(doubleSum(SubSeq(amounts, 1, Len(amounts) - 1)),
                 DoubleOf(amounts[Len(amounts)]))

\* Math.round of a product that lies next to below + 1/2 (`half`) in
\* magnitude: the integer on the side of the half on which it lies, the
\* half itself going up
roundTie(product, half, below) ==
  IF product.neg
  THEN (IF LessBits(half, product.bits) THEN 0 - (below + 1) ELSE 0 - below)
  ELSE (IF LessBits(product.bits, half) THEN below ELSE below + 1)

\* Math.round((totalGrossAmount / totalOrders) * 100) / 100 in hundredths,
\* for amounts in hundredths. Unless the mean lies halfway between two
\* hundredths the rounding errors of the doubles are too small to move the
\* result from the hundredth nearest to the mean; when it does, the result
\* is on the side of the half on which the product computed in doubles lies.
averageOf(amounts) ==
  LET n == Len(amounts)
      total == SumSeq(amounts)
  IN IF (2 * total) % (2 * n) # n THEN (2 * total + n) \div (2 * n)
     ELSE roundTie(DoubleTimes100(DoubleDiv(doubleSum(amounts), n)),
                   Shift(Bits(Abs(2 * total) \div n), Grid - 1),
                   (Abs(2 * total) \div n - 1) \div 2)

\* the statistics getStatistics computes of the filtered orders; amounts
\* in hundredths
statisticsOf(list) ==
  LET totalOrders == Len(list)
      totalGrossAmount == sumOf(list, "grossAmount")
  IN [totalOrders |-> totalOrders,
      ordersByPartner |->
        [p \in PartnerIds |-> Cardinality({i \in 1..Len(list) : list[i].partnerId = p})],
      totalGrossAmount |-> totalGrossAmount,
      totalTaxAmount |-> sumOf(list, "taxAmount"),
      totalNetAmount |-> sumOf(list, "netAmount"),
      averageOrderValue |->
        IF totalOrders > 0
        THEN (IF totalGrossAmount.t = "number"
              THEN Num(averageOf([i \in 1..Len(list) |-> list[i].grossAmount.n]))
              ELSE totalGrossAmount)
        ELSE Num(0),
      highestSequence |-> [p \in PartnerIds |-> highestOf(list, p)]]

\* InMemoryOrderRepository.getStatistics
getStatistics(repo, filters) == statisticsOf(applyFilters(values(repo.orders), filters))

\* ------------------------------------------------------------ HTTP routes
\* a string starts with a sign
Signed(chars) == chars # <<>> /\ Head(chars) \in {"-", "+"}

\* the digits a string has behind its sign
SignedDigits(chars) == LeadingDigits(IF Signed(chars) THEN Tail(chars) ELSE chars)

\* the integer a string starts with, NaN when it starts with none
IntegerOf(chars) ==
  IF SignedDigits(chars) = <<>> THEN NotANumber
  ELSE IF Head(chars) = "-" THEN Num(0 - ParseDigits(SignedDigits(chars)))
  ELSE Num(ParseDigits(SignedDigits(chars)))

\* parseInt(value, 10) of a query parameter: the value is made a string (an
\* absent parameter reads as "undefined", a repeated one as its values with
\* commas between them), leading white space is skipped, a sign is read,
\* then the decimal digits up to the first other character; NaN when there
\* is no digit
parseInt(value) == IntegerOf(TrimStart(ToChars(value)))

\* the characters of `chars` from position i on
From(chars, i) == SubSeq(chars, i, Len(chars))

\* the length of the exponent part `chars` starts with, 0 when it starts
\* with none; `digits` are the digits behind the e and its sign
ExponentLength(chars, digits) ==
  IF chars = <<>> \/ Head(chars) \notin {"e", "E"} \/ digits = 0 THEN 0
  ELSE 1 + (IF Signed(Tail(chars)) THEN 1 ELSE 0) + digits

\* the length of the mantissa `chars` starts with: `whole` digits, and a
\* point with `fraction` digits when the point follows and there is a digit
MantissaLength(chars, whole, fraction) ==
  IF Len(chars) > whole /\ chars[whole + 1] = "." /\ whole + fraction > 0
  THEN whole + 1 + fraction
  ELSE whole

\* the length of a decimal literal with a mantissa of that length
LiteralLength(chars, mantissa) ==
  IF mantissa = 0 THEN 0
  ELSE mantissa + ExponentLength(From(chars, mantissa + 1),
                                 Len(SignedDigits(From(chars, mantissa + 2))))

\* the length of the longest unsigned StrDecimalLiteral `chars` starts with
DecimalLength(chars) ==
  IF Len(chars) >= 8 /\ SubSeq(chars, 1, 8) = <<"I","n","f","i","n","i","t","y">> THEN 8
  ELSE LiteralLength(chars,
                     MantissaLength(chars, Len(LeadingDigits(chars)),
                                    Len(LeadingDigits(From(chars,
                                                           Len(LeadingDigits(chars)) + 2)))))

\* the number the longest prefix of a string that is a decimal literal
\* spells, in hundredths, NaN when there is none
FloatOf(chars, length) ==
  IF length = 0 THEN NotANumber
  ELSE StringToNumber(SubSeq(chars, 1, length + (IF Signed(chars) THEN 1 ELSE 0)))

\* the number a string starts with
PrefixNumber(chars) ==
  FloatOf(chars, DecimalLength(IF Signed(chars) THEN Tail(chars) ELSE chars))

\* parseFloat(value) of a query parameter, in hundredths: the value is made
\* a string, leading white space is skipped, and the longest prefix that is
\* a decimal literal is read; NaN when there is none
parseFloat(value) == PrefixNumber(TrimStart(ToChars(value)))

\* req.query: a parameter is a string, an array of strings when it is
\* repeated, an object when it is written with brackets, and undefined
\* when it is absent
QueryWith(known) ==
  known @@
  [partnerId |-> Undef, customerId |-> Undef, productId |-> Undef, fromDate |-> Undef,
   toDate |-> Undef, minAmount |-> Undef, maxAmount |-> Undef, page |-> Undef,
   pageSize |-> Undef, sortBy |-> Undef, sortOrder |-> Undef]

\* req.query with the parameters page and pageSize
QueryOf(page, pageSize) == QueryWith([page |-> page, pageSize |-> pageSize])

\* the partner filter parseQueryParams sets
partnerFilter(partnerId) ==
  IF Falsy(partnerId) THEN Undef
  ELSE IF partnerId \in {Str(PartnerChars(PARTNER_A)), Str(<<"A">>)}
  THEN Str(PartnerChars(PARTNER_A))
  ELSE IF partnerId \in {Str(PartnerChars(PARTNER_B)), Str(<<"B">>)}
  THEN Str(PartnerChars(PARTNER_B))
  ELSE Undef

\* the Date of a time value, undefined for NaN
ValidDate(time) == IF IsNaN(time) THEN Undef ELSE DateAt(time)

\* a number, undefined for NaN
ValidNumber(number) == IF IsNaN(number) THEN Undef ELSE number

\* the date filter parseQueryParams sets: new Date(value) when the
\* parameter is given and the date is valid
dateFilter(value) == IF Falsy(value) THEN Undef ELSE ValidDate(TimeOf(value))

\* the amount filter parseQueryParams sets: parseFloat(value) when the
\* parameter is given and the number is not NaN
amountFilter(value) == IF Falsy(value) THEN Undef ELSE ValidNumber(parseFloat(value))

\* the fields orders can be sorted by
validFields == {"processedAt", "transactionTime", "grossAmount", "sequenceNumber"}

\* the field a string names
FieldOf(chars) ==
  CHOOSE f \in validFields \cup {""} :
    \/ f = "processedAt" /\ chars = <<"p","r","o","c","e","s","s","e","d","A","t">>
    \/ f = "transactionTime"
         /\ chars = <<"t","r","a","n","s","a","c","t","i","o","n","T","i","m","e">>
    \/ f = "grossAmount" /\ chars = <<"g","r","o","s","s","A","m","o","u","n","t">>
    \/ f = "sequenceNumber"
         /\ chars = <<"s","e","q","u","e","n","c","e","N","u","m","b","e","r">>
    \/ f = ""
         /\ chars \notin {<<"p","r","o","c","e","s","s","e","d","A","t">>,
                           <<"t","r","a","n","s","a","c","t","i","o","n","T","i","m","e">>,
                           <<"g","r","o","s","s","A","m","o","u","n","t">>,
                           <<"s","e","q","u","e","n","c","e","N","u","m","b","e","r">>}

\* the sort parseQueryParams sets: by a valid field, ascending only when
\* sortOrder is 'asc'
sortOption(sortBy, sortOrder) ==
  IF sortBy.t # "string" \/ FieldOf(sortBy.s) = "" THEN NoSort
  ELSE SortBy(FieldOf(sortBy.s),
              IF sortOrder = Str(<<"a", "s", "c">>) THEN "asc" ELSE "desc")

\* number || otherwise, as an integer
OrElse(number, otherwise) == IF Falsy(number) THEN otherwise ELSE number.n

\* parseInt(value, 10) || otherwise
parsedOr(value, otherwise) == OrElse(parseInt(value), otherwise)

\* Math.min(a, b) on two integers
Min(a, b) == IF a < b THEN a ELSE b

\* { page, pageSize } with the page size Math.min(pageSize, 100)
Paginated(parsed) == Pagination(Num(parsed.page), Num(Min(parsed.pageSize, 100)))

\* parseQueryParams of the orders router
parseQueryParams(query) ==
  [filters |->
     [f \in DOMAIN NoFilters |->
        CASE f = "partnerId" -> partnerFilter(query[f])
          [] f \in {"customerId", "productId"} ->
               (IF Falsy(query[f]) THEN Undef ELSE query[f])
          [] f \in {"fromDate", "toDate"} -> dateFilter(query[f])
          [] OTHER -> amountFilter(query[f])],
   pagination |->
     Paginated([f \in {"page", "pageSize"} |->
                  parsedOr(query[f], IF f = "page" THEN 1 ELSE 20)]),
   sort |-> sortOption(query.sortBy, query.sortOrder)]

\* OrderQueryService.listOrders: findMany of the order repository of the
\* container, which InMemoryOrderRepository and FileOrderRepository
\* implement with the same statements, with params?.pagination ??
\* { page: 1, pageSize: 20 }
listOrders(sys, params) ==
  findMany(RepoOf(sys), params.filters,
           IF params.pagination = NoPagination THEN Pagination(Num(1), Num(20))
           ELSE params.pagination,
           params.sort)

\* GET /api/orders
getOrders(sys, query) ==
  LET params == parseQueryParams(query)
  IN [pagination |-> params.pagination, page |-> listOrders(sys, params)]

\* the response to the outcome r of the handler: 202 for an accepted order,
\* 422 for a rejected one; an exception goes to next(error), which answers 500
orderResponse(r) ==
  [status |-> IF r.threw THEN 500 ELSE IF r.result.success THEN 202 ELSE 422,
   sys |-> r.sys, result |-> r.result]

\* POST /api/feed/partner-a and /partner-b: 400 for a body that is neither
\* an object nor an array (typeof of an array is 'object'), 202 for an
\* accepted order, 422 for a rejected one
postOrder(sys, partnerId, body) ==
  IF body.root \notin {"object", "array"}
  THEN [status |-> 400, sys |-> sys,
        result |-> FeedResult(FALSE, Undef, partnerId, Undef, <<>>)]
  ELSE orderResponse(processOrder(sys, partnerId, body))

\* BatchResponse
BatchResponseOf(results) ==
  [total |-> Len(results),
   accepted |-> Len(SelectSeq(results, LAMBDA r : r.success)),
   rejected |-> Len(SelectSeq(results, LAMBDA r : ~r.success)),
   results |-> [i \in 1..Len(results) |->
                  IF results[i].success
                  THEN [status |-> "accepted", orderId |-> results[i].orderId,
                        partnerId |-> results[i].partnerId,
                        sequenceNumber |-> results[i].sequenceNumber]
                  ELSE [status |-> "rejected", orderId |-> results[i].orderId,
                        partnerId |-> results[i].partnerId,
                        errors |-> results[i].errors]]]

\* the response to the outcome r of the batch handler
batchResponse(r) ==
  IF r.threw THEN [status |-> 500, sys |-> r.sys, result |-> BatchResponseOf(<<>>)]
  ELSE [status |-> 200, sys |-> r.sys, result |-> BatchResponseOf(r.results)]

\* POST /api/feed/partner-a/batch and /partner-b/batch: 400 for a body that
\* is not an array, 200 with the outcome of every element; an exception of
\* the handler goes to next(error), which answers 500
postBatch(sys, partnerId, body) ==
  IF body.root # "array"
  THEN [status |-> 400, sys |-> sys, result |-> BatchResponseOf(<<>>)]
  ELSE batchResponse(IF partnerId = PARTNER_A THEN processPartnerABatch(sys, body.f)
                     ELSE processPartnerBBatch(sys, body.f))

\* { orderId, skuId, quantity: -5, unitPrice, taxRate, transactionTimeMs }:
\* customerId is missing and quantity is negative
MissingAndInvalidA ==
  Obj([k \in DOMAIN ValidA(O1).f \ {"customerId"} |->
         IF k = "quantity" THEN Num(-500) ELSE ValidA(O1).f[k]])

\* clientId is missing and purchaseTime is '2024-13-45'
MissingAndInvalidB ==
  Obj([k \in DOMAIN ValidB(T1).f \ {"clientId"} |->
         IF k = "purchaseTime" THEN Str(Date20241345) ELSE ValidB(T1).f[k]])

\* request bodies posted to the feed routes
PostedA ==
  {ValidA(O1), NegativeQuantityA, MissingAndInvalidA, NullPayload, ArrayOf(<<ValidA(O1)>>)}

PostedB == {ValidB(T1), SpacedTimeB, BadTimeB, MissingAndInvalidB, ArrayOf(<<>>)}

\* request bodies posted to the batch routes: an empty array, an array of
\* a valid payload, a payload that fails validation and null, and an object
PostedBatches(partnerId) ==
  IF partnerId = PARTNER_A
  THEN {ArrayOf(<<>>), ArrayOf(<<ValidA(O1), NegativeQuantityA, NullPayload>>), ValidA(O1)}
  ELSE {ArrayOf(<<>>), ArrayOf(<<ValidB(T1), NegativeQtyB, NullPayload>>), ValidB(T1)}

\* values of the page and pageSize parameters: absent, 'abc', '0', '-5',
\* '2', '500'
PageParams ==
  {Undef, Str(<<"a", "b", "c">>), Str(<<"0">>), Str(<<"-", "5">>), Str(<<"2">>),
   Str(<<"5", "0", "0">>)}

\* query strings with a filter or a sort: ?partnerId=A, ?partnerId=X,
\* ?customerId=C, ?customerId=C&customerId=D, ?fromDate=2024-01-15,
\* ?toDate=2024-13-45, ?minAmount=19.99, ?maxAmount=abc,
\* ?sortBy=grossAmount&sortOrder=asc, ?sortBy=id, ?page=2&page=3,
\* ?pageSize[a]=b
FilterQueries ==
  {QueryWith([partnerId |-> Str(<<"A">>)]),
   QueryWith([partnerId |-> Str(<<"X">>)]),
   QueryWith([customerId |-> Str(<<"C">>)]),
   QueryWith([customerId |-> StrList(<<(<<"C">>), (<<"D">>)>>)]),
   QueryWith([fromDate |-> Str(Date20240115)]),
   QueryWith([toDate |-> Str(Date20241345)]),
   QueryWith([minAmount |-> Str(<<"1", "9", ".", "9", "9">>)]),
   QueryWith([maxAmount |-> Str(<<"a", "b", "c">>)]),
   QueryWith([sortBy |-> Str(<<"g","r","o","s","s","A","m","o","u","n","t">>),
              sortOrder |-> Str(<<"a", "s", "c">>)]),
   QueryWith([sortBy |-> Str(<<"i", "d">>)]),
   QueryWith([page |-> StrList(<<(<<"2">>), (<<"3">>)>>)]),
   QueryWith([pageSize |-> ObjVal])}

\* the query strings of the requests: each value of page without pageSize,
\* each value of pageSize without page, the two together, and the filters
Queries ==
  {QueryOf(page, Undef) : page \in PageParams}
    \cup {QueryOf(Undef, pageSize) : pageSize \in PageParams}
    \cup {QueryOf(Str(<<"2">>), Str(<<"2">>)), QueryOf(Str(<<"-", "5">>), Str(<<"5", "0", "0">>))}
    \cup FilterQueries

\* ------------------------------------------------------------------ state
VARIABLES
  sequences,          \* InMemorySequenceManager.sequences
  validOrderHistory,  \* InMemoryOrderStream.validOrderHistory
  errorOrderHistory,  \* InMemoryOrderStream.errorOrderHistory
  validListeners,     \* listeners of StreamEvent.VALID_ORDER, in subscription order
  errorListeners,     \* listeners of StreamEvent.ERROR_ORDER, in subscription order
  orders,             \* InMemoryOrderRepository.orders
  externalIdIndex,    \* InMemoryOrderRepository.externalIdIndex
  errors,             \* InMemoryErrorRepository.errors
  uuidCount,          \* identifiers generated by uuidv4 so far
  last,               \* the last operation: its arguments, outcome and the state before it
  callLog,            \* outcome of every process...Order call that returned, in call order
  seqLog,             \* value returned by every getNextSequence call, in call order
  resetPartners,      \* partners whose counter was reset
  published,          \* the order events emitted on the valid-order stream so far
  calls,              \* number of operations performed
  fileSequences,      \* FileSequenceManager.sequences
  fileOrders,         \* FileOrderRepository.orders
  fileExternalIdIndex, \* FileOrderRepository.externalIdIndex
  fileErrors,         \* FileErrorRepository.errors
  fileUuidCount,      \* identifiers generated for the file error repository
  saveTimeout,        \* saveTimeout of each writer (0 is null)
  timers,             \* timers set by setTimeout that are pending
  timerCount,         \* timers set so far by this process
  sequencesFile,      \* data/sequences.json
  ordersFile,         \* data/orders.json
  errorsFile,         \* data/errors.json
  fileLog,            \* value returned by every FileSequenceManager.getNextSequence call
  life,               \* number of the running process, 1 for the first
  fileResets,         \* the resets of a partner's counter, with the process that made them
  flushed,            \* the last flush wrote sequences.json and no counter changed since
  restored,           \* the counters before the restart, when it followed such a flush,
                      \* and the order repository before it, when orders.json held its orders
  failedWrites,       \* writes that have failed
  fileLast,           \* the last operation on a file-backed adapter
  steps,              \* number of operations on the file-backed adapters
  busValidHistory,    \* validOrderHistory of a stream with subscribers of its own
  busErrorHistory,    \* errorOrderHistory of that stream
  busValidListeners,  \* its listeners of StreamEvent.VALID_ORDER, in subscription order
  busErrorListeners,  \* its listeners of StreamEvent.ERROR_ORDER, in subscription order
  deliveries,         \* every call of a listener, in call order
  running,            \* the bag of the calls of async listeners that have not completed
  overlapped,         \* the calls that started while an earlier call of the listener ran
  busLast,            \* the last call on the stream
  busSteps,           \* number of calls on the stream
  repoOrders,         \* orders of a repository that is called directly
  repoExternalIdIndex, \* externalIdIndex of that repository
  batchActive,        \* a saveBatch call is suspended at its await
  batchRest,          \* the orders the suspended saveBatch has still to save
  batchOrders,        \* the orders handed to the last saveBatch call
  batchBefore,        \* the repository when the last saveBatch was called
  batchAlone,         \* no save call was made since while that saveBatch was suspended
  saveLog,            \* the orders saved, in the order they were saved
  repoLast,           \* the last call on the repository
  repoSteps,          \* number of calls on the repository
  api,                \* the adapters of a container that is served over HTTP
  apiPending,         \* <<result>> while the handler of GET /api/orders is at its await
  acceptedLog,        \* the orders the feed routes have answered as accepted
  apiLast,            \* the last request: its input, the response and the state before it
  apiSteps            \* number of requests and timer callbacks

feedVars ==
  <<sequences, validOrderHistory, errorOrderHistory, validListeners, errorListeners,
    orders, externalIdIndex, errors, uuidCount, last, callLog, seqLog, resetPartners,
    published, calls>>

fileVars ==
  <<fileSequences, fileOrders, fileExternalIdIndex, fileErrors, fileUuidCount,
    saveTimeout, timers, timerCount, sequencesFile, ordersFile, errorsFile, fileLog,
    life, fileResets, flushed, restored, failedWrites, fileLast, steps>>

busVars ==
  <<busValidHistory, busErrorHistory, busValidListeners, busErrorListeners, deliveries,
    running, overlapped, busLast, busSteps>>

repoVars ==
  <<repoOrders, repoExternalIdIndex, batchActive, batchRest, batchOrders, batchBefore,
    batchAlone, saveLog, repoLast, repoSteps>>

apiVars == <<api, apiPending, acceptedLog, apiLast, apiSteps>>

vars == <<feedVars, fileVars, busVars, repoVars, apiVars>>

\* what an operation of one component leaves alone
outsideFeed == <<fileVars, busVars, repoVars, apiVars>>

outsideFile == <<feedVars, busVars, repoVars, apiVars>>

outsideBus == <<feedVars, fileVars, repoVars, apiVars>>

outsideRepo == <<feedVars, fileVars, busVars, apiVars>>

outsideApi == <<feedVars, fileVars, busVars, repoVars>>

\* the program state as one value, and its parts before an operation
Sys ==
  [sequences |-> sequences, validOrderHistory |-> validOrderHistory,
   errorOrderHistory |-> errorOrderHistory, validListeners |-> validListeners,
   errorListeners |-> errorListeners, orders |-> orders,
   externalIdIndex |-> externalIdIndex, errors |-> errors, uuidCount |-> uuidCount,
   usePersistence |-> FALSE, loop |-> NoTimers, sequencesFile |-> NoFile,
   ordersFile |-> NoFile, errorsFile |-> NoFile]

Repo == [orders |-> orders, externalIdIndex |-> externalIdIndex]

Before ==
  [sequences |-> sequences, orders |-> orders, externalIdIndex |-> externalIdIndex,
   validCount |-> Len(validOrderHistory), errorCount |-> Len(errorOrderHistory)]

\* `returned` are the results of the process...Order calls that completed,
\* `results` the value the operation returned to its caller
Op(op, partnerId, inputs, threw, returned, results) ==
  [op |-> op, partnerId |-> partnerId, inputs |-> inputs, threw |-> threw,
   returned |-> returned, results |-> results, before |-> Before]

\* createContainer: fresh adapters, one listener on each stream
FeedInit ==
  /\ sequences = <<>>
  /\ validOrderHistory = <<>>
  /\ errorOrderHistory = <<>>
  /\ validListeners = <<PersistOrder>>
  /\ errorListeners = <<PersistError>>
  /\ orders = <<>>
  /\ externalIdIndex = <<>>
  /\ errors = <<>>
  /\ uuidCount = 0
  /\ last = [op |-> "createContainer", partnerId |-> PARTNER_A, inputs |-> <<>>,
             threw |-> FALSE, returned |-> <<>>, results |-> <<>>,
             before |-> [sequences |-> <<>>, orders |-> <<>>, externalIdIndex |-> <<>>,
                         validCount |-> 0, errorCount |-> 0]]
  /\ callLog = <<>>
  /\ seqLog = <<>>
  /\ resetPartners = {}
  /\ published = {}
  /\ calls = 0

\* ------------------------------------------- file-backed adapters: state
\* the event loop's timers as one value
Loop == [saveTimeout |-> saveTimeout, timers |-> timers, timerCount |-> timerCount]

FileRepo == [orders |-> fileOrders, externalIdIndex |-> fileExternalIdIndex]

\* new adapters on an empty data directory
FileInit ==
  /\ fileSequences = <<>>
  /\ fileOrders = <<>>
  /\ fileExternalIdIndex = <<>>
  /\ fileErrors = <<>>
  /\ fileUuidCount = 0
  /\ saveTimeout = NoTimers.saveTimeout
  /\ timers = NoTimers.timers
  /\ timerCount = NoTimers.timerCount
  /\ sequencesFile = NoFile
  /\ ordersFile = NoFile
  /\ errorsFile = NoFile
  /\ fileLog = <<>>
  /\ life = 1
  /\ fileResets = {}
  /\ flushed = FALSE
  /\ restored = [valid |-> FALSE, counters |-> [p \in PartnerIds |-> 0],
                  ordersValid |-> FALSE,
                  repo |-> [orders |-> <<>>, externalIdIndex |-> <<>>]]
  /\ failedWrites = 0
  /\ fileLast = [op |-> "new", writer |-> SequenceWriter, partnerId |-> PARTNER_A,
                 value |-> 0, current |-> 0, pending |-> 0, failed |-> 0]
  /\ steps = 0

\* ---------------------------------------------------- stream bus: state
\* a new InMemoryOrderStream without subscribers
BusInit ==
  /\ busValidHistory = <<>>
  /\ busErrorHistory = <<>>
  /\ busValidListeners = <<>>
  /\ busErrorListeners = <<>>
  /\ deliveries = <<>>
  /\ running = EmptyBag
  /\ overlapped = {}
  /\ busLast = [op |-> "new", kind |-> ValidKind, event |-> 0, threw |-> FALSE,
                subscribed |-> <<>>, called |-> <<>>]
  /\ busSteps = 0

\* -------------------------------------------- order repository: state
RepoStore == [orders |-> repoOrders, externalIdIndex |-> repoExternalIdIndex]

\* a new InMemoryOrderRepository
RepoInit ==
  /\ repoOrders = <<>>
  /\ repoExternalIdIndex = <<>>
  /\ batchActive = FALSE
  /\ batchRest = <<>>
  /\ batchOrders = <<>>
  /\ batchBefore = [orders |-> <<>>, externalIdIndex |-> <<>>]
  /\ batchAlone = TRUE
  /\ saveLog = <<>>
  /\ repoLast = [op |-> "new", filters |-> NoFilters, pagination |-> NoPagination,
                 sort |-> NoSort, count |-> 0,
                 result |-> findMany([orders |-> <<>>, externalIdIndex |-> <<>>],
                                     NoFilters, NoPagination, NoSort)]
  /\ repoSteps = 0

\* the state after construction
\* the record of a request, or of the callback of a timer with the writer
\* whose timer it was and the outcome of its write
ApiOp(op, partnerId, body, status, result, query, pagination, page) ==
  [op |-> op, partnerId |-> partnerId, body |-> body, status |-> status,
   result |-> result, query |-> query, pagination |-> pagination, page |-> page,
   writer |-> SequenceWriter, outcome |-> "written", before |-> api]

\* the adapters createContainer({usePersistence}) makes on a data
\* directory that holds no file
NewContainer(usePersistence) ==
  [sequences |-> <<>>, validOrderHistory |-> <<>>, errorOrderHistory |-> <<>>,
   validListeners |-> <<PersistOrder>>, errorListeners |-> <<PersistError>>,
   orders |-> <<>>, externalIdIndex |-> <<>>, errors |-> <<>>, uuidCount |-> 0,
   usePersistence |-> usePersistence, loop |-> NoTimers, sequencesFile |-> NoFile,
   ordersFile |-> NoFile, errorsFile |-> NoFile]

\* createApp(createContainer(options)): usePersistence is the option or,
\* without it, whether NODE_ENV is not 'test'
ApiInit ==
  /\ \E usePersistence \in BOOLEAN : api = NewContainer(usePersistence)
  /\ apiPending = <<>>
  /\ acceptedLog = <<>>
  /\ apiLast = [op |-> "createApp"]
  /\ apiSteps = 0

Init == FeedInit /\ FileInit /\ BusInit /\ RepoInit /\ ApiInit

Install(sys) ==
  /\ sequences' = sys.sequences
  /\ validOrderHistory' = sys.validOrderHistory
  /\ errorOrderHistory' = sys.errorOrderHistory
  /\ validListeners' = sys.validListeners
  /\ errorListeners' = sys.errorListeners
  /\ orders' = sys.orders
  /\ externalIdIndex' = sys.externalIdIndex
  /\ errors' = sys.errors
  /\ uuidCount' = sys.uuidCount
  /\ published' = published \cup
       {sys.validOrderHistory[i].orderEvent :
          i \in (Len(validOrderHistory) + 1)..Len(sys.validOrderHistory)}

\* the getNextSequence returns behind a sequence of call results
Issued(partnerId, results) ==
  LET ok == SelectSeq(results, LAMBDA r : r.success)
  IN [i \in 1..Len(ok) |->
        [partnerId |-> partnerId, value |-> ok[i].sequenceNumber.n, caller |-> "feed"]]

\* one feed request for one payload
ProcessOrder(partnerId, input) ==
  /\ calls < MaxCalls
  /\ \E r \in {processOrder(Sys, partnerId, input)} :
       \E results \in {IF r.threw THEN <<>> ELSE <<r.result>>} :
         /\ Install(r.sys)
         /\ last' = Op("process", partnerId, <<input>>, r.threw, results, results)
         /\ callLog' = callLog \o results
         /\ seqLog' = seqLog \o Issued(partnerId, results)
  /\ calls' = calls + 1
  /\ UNCHANGED outsideFeed
  /\ UNCHANGED resetPartners

ProcessPartnerAOrder == \E input \in InputsA : ProcessOrder(PARTNER_A, input)

ProcessPartnerBOrder == \E input \in InputsB : ProcessOrder(PARTNER_B, input)

\* one batch request
ProcessBatch(partnerId, inputs) ==
  /\ calls < MaxCalls
  /\ \E r \in {IF partnerId = PARTNER_A THEN processPartnerABatch(Sys, inputs)
              ELSE processPartnerBBatch(Sys, inputs)} :
        /\ Install(r.sys)
        /\ last' = Op("batch", partnerId, inputs, r.threw, r.results,
                      IF r.threw THEN <<>> ELSE r.results)
        /\ callLog' = callLog \o r.results
        /\ seqLog' = seqLog \o Issued(partnerId, r.results)
  /\ calls' = calls + 1
  /\ UNCHANGED outsideFeed
  /\ UNCHANGED resetPartners

ProcessPartnerABatch == \E inputs \in Batches(PARTNER_A) : ProcessBatch(PARTNER_A, inputs)

ProcessPartnerBBatch == \E inputs \in Batches(PARTNER_B) : ProcessBatch(PARTNER_B, inputs)

\* a caller other than the feed handler takes a number
GetNextSequence ==
  \E partnerId \in PartnerIds :
    /\ calls < MaxCalls
    /\ \E next \in {getNextSequence(sequences, partnerId)} :
          /\ sequences' = next.sequences
          /\ seqLog' = Append(seqLog, [partnerId |-> partnerId, value |-> next.value,
                                     caller |-> "direct"])
    /\ last' = Op("getNextSequence", partnerId, <<>>, FALSE, <<>>, <<>>)
    /\ calls' = calls + 1
    /\ UNCHANGED outsideFeed
    /\ UNCHANGED <<validOrderHistory, errorOrderHistory, validListeners, errorListeners,
                   orders, externalIdIndex, errors, uuidCount, callLog, resetPartners,
                   published>>

ResetSequence ==
  \E partnerId \in PartnerIds :
    /\ calls < MaxCalls
    /\ sequences' = resetSequence(sequences, partnerId)
    /\ resetPartners' = resetPartners \cup {partnerId}
    /\ last' = Op("resetSequence", partnerId, <<>>, FALSE, <<>>, <<>>)
    /\ calls' = calls + 1
    /\ UNCHANGED outsideFeed
    /\ UNCHANGED <<validOrderHistory, errorOrderHistory, validListeners, errorListeners,
                   orders, externalIdIndex, errors, uuidCount, callLog, seqLog, published>>

ResetAll ==
  /\ calls < MaxCalls
  /\ sequences' = resetAll(sequences)
  /\ resetPartners' = PartnerIds
  /\ last' = Op("resetAll", PARTNER_A, <<>>, FALSE, <<>>, <<>>)
  /\ calls' = calls + 1
  /\ UNCHANGED outsideFeed
  /\ UNCHANGED <<validOrderHistory, errorOrderHistory, validListeners, errorListeners,
                 orders, externalIdIndex, errors, uuidCount, callLog, seqLog, published>>

\* InMemoryOrderStream.clearHistory on the stream of the container
ClearHistory ==
  /\ calls < MaxCalls
  /\ validOrderHistory' = <<>>
  /\ errorOrderHistory' = <<>>
  /\ last' = Op("clearHistory", PARTNER_A, <<>>, FALSE, <<>>, <<>>)
  /\ calls' = calls + 1
  /\ UNCHANGED outsideFeed
  /\ UNCHANGED <<sequences, validListeners, errorListeners, orders, externalIdIndex, errors,
                 uuidCount, callLog, seqLog, resetPartners, published>>

\* InMemoryOrderStream.removeAllListeners on the stream of the container
RemoveAllListeners ==
  /\ calls < MaxCalls
  /\ validListeners' = <<>>
  /\ errorListeners' = <<>>
  /\ last' = Op("removeAllListeners", PARTNER_A, <<>>, FALSE, <<>>, <<>>)
  /\ calls' = calls + 1
  /\ UNCHANGED outsideFeed
  /\ UNCHANGED <<sequences, validOrderHistory, errorOrderHistory, orders, externalIdIndex,
                 errors, uuidCount, callLog, seqLog, resetPartners, published>>

\* InMemoryErrorRepository.clear on the error repository of the container
ClearErrors ==
  /\ calls < MaxCalls
  /\ errors' = <<>>
  /\ last' = Op("clearErrors", PARTNER_A, <<>>, FALSE, <<>>, <<>>)
  /\ calls' = calls + 1
  /\ UNCHANGED outsideFeed
  /\ UNCHANGED <<sequences, validOrderHistory, errorOrderHistory, validListeners,
                 errorListeners, orders, externalIdIndex, uuidCount, callLog, seqLog,
                 resetPartners, published>>

Next ==
  \/ ProcessPartnerAOrder
  \/ ProcessPartnerBOrder
  \/ ProcessPartnerABatch
  \/ ProcessPartnerBBatch
  \/ GetNextSequence
  \/ ResetSequence
  \/ ResetAll
  \/ ClearHistory
  \/ RemoveAllListeners
  \/ ClearErrors

Spec == Init /\ [][Next]_vars

InstallLoop(loop) ==
  /\ saveTimeout' = loop.saveTimeout
  /\ timers' = loop.timers
  /\ timerCount' = loop.timerCount

\* the record of an operation: `current` is the partner's counter and
\* `pending` the number of pending timers of the writer before it, `failed`
\* the number of writes that had failed before it
FileOp(op, writer, partnerId, value) ==
  [op |-> op, writer |-> writer, partnerId |-> partnerId, value |-> value,
   current |-> getCurrentSequence(fileSequences, partnerId),
   pending |-> Cardinality(Pending(Loop, writer)),
   failed |-> failedWrites]

sequenceState == <<fileSequences, fileLog, fileResets, flushed, restored>>

orderState == <<fileOrders, fileExternalIdIndex>>

errorState == <<fileErrors, fileUuidCount>>

files == <<sequencesFile, ordersFile, errorsFile>>

\* FileSequenceManager.getNextSequence
FileGetNextSequence ==
  \E partnerId \in PartnerIds :
    /\ steps < MaxSteps
    /\ \E r \in {fileGetNextSequence(fileSequences, Loop, partnerId)} :
          /\ fileSequences' = r.sequences
          /\ InstallLoop(r.loop)
          /\ fileLog' = Append(fileLog, [partnerId |-> partnerId, value |-> r.value,
                                         life |-> life])
          /\ fileLast' = FileOp("getNextSequence", SequenceWriter, partnerId, r.value)
    /\ flushed' = FALSE
    /\ steps' = steps + 1
    /\ UNCHANGED outsideFile
    /\ UNCHANGED <<fileResets, restored, orderState, errorState, files, life, failedWrites>>

\* FileSequenceManager.resetSequence
FileResetSequence ==
  \E partnerId \in PartnerIds :
    /\ steps < MaxSteps
    /\ \E r \in {fileResetSequence(fileSequences, Loop, partnerId)} :
          /\ fileSequences' = r.sequences
          /\ InstallLoop(r.loop)
    /\ fileResets' = fileResets \cup {[partnerId |-> partnerId, life |-> life]}
    /\ fileLast' = FileOp("resetSequence", SequenceWriter, partnerId, 0)
    /\ flushed' = FALSE
    /\ steps' = steps + 1
    /\ UNCHANGED outsideFile
    /\ UNCHANGED <<fileLog, restored, orderState, errorState, files, life, failedWrites>>

\* FileSequenceManager.resetAll
FileResetAll ==
  /\ steps < MaxSteps
  /\ \E r \in {fileResetAll(fileSequences, Loop)} :
        /\ fileSequences' = r.sequences
        /\ InstallLoop(r.loop)
  /\ fileResets' = fileResets \cup {[partnerId |-> p, life |-> life] : p \in PartnerIds}
  /\ fileLast' = FileOp("resetAll", SequenceWriter, PARTNER_A, 0)
  /\ flushed' = FALSE
  /\ steps' = steps + 1
  /\ UNCHANGED outsideFile
  /\ UNCHANGED <<fileLog, restored, orderState, errorState, files, life, failedWrites>>

\* FileOrderRepository.save
FileSave ==
  \E order \in {OrderR1, OrderR2, OrderR3} :
    /\ steps < MaxSteps
    /\ \E r \in {fileSave(FileRepo, Loop, order)} :
          /\ fileOrders' = r.repo.orders
          /\ fileExternalIdIndex' = r.repo.externalIdIndex
          /\ InstallLoop(r.loop)
    /\ fileLast' = FileOp("save", OrderWriter, order.partnerId, 0)
    /\ steps' = steps + 1
    /\ UNCHANGED outsideFile
    /\ UNCHANGED <<sequenceState, errorState, files, life, failedWrites>>

\* FileOrderRepository.saveBatch
FileSaveBatch ==
  \E orderList \in {<<OrderR1, OrderR2>>, <<OrderR1, OrderR3>>} :
    /\ steps < MaxSteps
    /\ \E r \in {fileSaveBatch(FileRepo, Loop, orderList)} :
          /\ fileOrders' = r.repo.orders
          /\ fileExternalIdIndex' = r.repo.externalIdIndex
          /\ InstallLoop(r.loop)
    /\ fileLast' = FileOp("saveBatch", OrderWriter, PARTNER_A, 0)
    /\ steps' = steps + 1
    /\ UNCHANGED outsideFile
    /\ UNCHANGED <<sequenceState, errorState, files, life, failedWrites>>

\* FileOrderRepository.clear
FileClear ==
  /\ steps < MaxSteps
  /\ \E r \in {fileClear(FileRepo, Loop)} :
        /\ fileOrders' = r.repo.orders
        /\ fileExternalIdIndex' = r.repo.externalIdIndex
        /\ InstallLoop(r.loop)
  /\ fileLast' = FileOp("clear", OrderWriter, PARTNER_A, 0)
  /\ steps' = steps + 1
  /\ UNCHANGED outsideFile
  /\ UNCHANGED <<sequenceState, errorState, files, life, failedWrites>>

\* FileErrorRepository.save
FileErrorSave ==
  /\ steps < MaxSteps
  /\ \E r \in {fileErrorSave(fileErrors, fileUuidCount, Loop, ErrorE1)} :
        /\ fileErrors' = r.errors
        /\ fileUuidCount' = r.uuidCount
        /\ InstallLoop(r.loop)
  /\ fileLast' = FileOp("save", ErrorWriter, PARTNER_A, 0)
  /\ steps' = steps + 1
  /\ UNCHANGED outsideFile
  /\ UNCHANGED <<sequenceState, orderState, files, life, failedWrites>>

\* FileErrorRepository.clear
FileErrorClear ==
  /\ steps < MaxSteps
  /\ \E r \in {fileErrorClear(fileErrors, Loop)} :
        /\ fileErrors' = r.errors
        /\ InstallLoop(r.loop)
  /\ fileLast' = FileOp("clear", ErrorWriter, PARTNER_A, 0)
  /\ steps' = steps + 1
  /\ UNCHANGED outsideFile
  /\ UNCHANGED <<sequenceState, orderState, fileUuidCount, files, life, failedWrites>>

\* the write of a writer, with what the file system makes of it
WriteFile(writer, outcome) ==
  /\ sequencesFile' = IF writer = SequenceWriter
                      THEN saveToFile(sequencesFile, fileSequences, outcome)
                      ELSE sequencesFile
  /\ ordersFile' = IF writer = OrderWriter
                   THEN saveOrdersToFile(ordersFile, FileRepo, outcome)
                   ELSE ordersFile
  /\ errorsFile' = IF writer = ErrorWriter
                   THEN saveErrorsToFile(errorsFile, fileErrors, outcome)
                   ELSE errorsFile
  /\ failedWrites' = IF outcome = "written" THEN failedWrites ELSE failedWrites + 1

\* a pending timer fires: the callback of scheduleSave runs saveToFile
TimerFires ==
  \E t \in timers, outcome \in WriteOutcomes :
    /\ steps < MaxSteps
    /\ timers' = timers \ {t}
    /\ WriteFile(t.owner, outcome)
    /\ fileLast' = FileOp("timer", t.owner, PARTNER_A, 0)
    /\ steps' = steps + 1
    /\ UNCHANGED outsideFile
    /\ UNCHANGED <<saveTimeout, timerCount, sequenceState, orderState, errorState, life>>

\* FileSequenceManager.flush
Flush ==
  \E outcome \in WriteOutcomes :
    /\ steps < MaxSteps
    /\ \E r \in {flush(sequencesFile, fileSequences, Loop, outcome)} :
          /\ sequencesFile' = r.file
          /\ InstallLoop(r.loop)
    /\ flushed' = (outcome = "written")
    /\ failedWrites' = IF outcome = "written" THEN failedWrites ELSE failedWrites + 1
    /\ fileLast' = FileOp("flush", SequenceWriter, PARTNER_A, 0)
    /\ steps' = steps + 1
    /\ UNCHANGED outsideFile
    /\ UNCHANGED <<fileSequences, fileLog, fileResets, restored, orderState, errorState,
                   ordersFile, errorsFile, life>>

\* FileOrderRepository.flush
FlushOrders ==
  \E outcome \in WriteOutcomes :
    /\ steps < MaxSteps
    /\ \E r \in {flushOrders(ordersFile, FileRepo, Loop, outcome)} :
          /\ ordersFile' = r.file
          /\ InstallLoop(r.loop)
    /\ failedWrites' = IF outcome = "written" THEN failedWrites ELSE failedWrites + 1
    /\ fileLast' = FileOp("flush", OrderWriter, PARTNER_A, 0)
    /\ steps' = steps + 1
    /\ UNCHANGED outsideFile
    /\ UNCHANGED <<sequenceState, orderState, errorState, sequencesFile, errorsFile, life>>

\* the process stops, which drops its pending timers, and a new process
\* constructs the three adapters on the same data directory
Restart ==
  /\ steps < MaxSteps
  /\ fileSequences' = loadFromFile(sequencesFile)
  /\ \E repo \in {loadOrdersFromFile(ordersFile)} :
        /\ fileOrders' = repo.orders
        /\ fileExternalIdIndex' = repo.externalIdIndex
  /\ fileErrors' = loadErrorsFromFile(errorsFile)
  /\ InstallLoop(NoTimers)
  /\ life' = life + 1
  /\ restored' = [valid |-> flushed,
                  counters |-> [p \in PartnerIds |-> getCurrentSequence(fileSequences, p)],
                  ordersValid |-> ordersFile = FileOf(stringifyOrders(fileOrders)),
                  repo |-> FileRepo]
  /\ flushed' = FALSE
  /\ fileLast' = FileOp("restart", SequenceWriter, PARTNER_A, 0)
  /\ steps' = steps + 1
  /\ UNCHANGED outsideFile
  /\ UNCHANGED <<fileLog, fileResets, fileUuidCount, files, failedWrites>>

NextFile ==
  \/ FileGetNextSequence
  \/ FileResetSequence
  \/ FileResetAll
  \/ FileSave
  \/ FileSaveBatch
  \/ FileClear
  \/ FileErrorSave
  \/ FileErrorClear
  \/ TimerFires
  \/ Flush
  \/ FlushOrders
  \/ Restart

SpecFile == Init /\ [][NextFile]_vars

\* the record of a call on the stream: `subscribed` the listeners of the
\* kind when emit was entered, `called` the listeners it called
BusOp(op, kind, event, threw, subscribed, called) ==
  [op |-> op, kind |-> kind, event |-> event, threw |-> threw,
   subscribed |-> subscribed, called |-> called]

\* InMemoryOrderStream.onValidOrder
OnValidOrder ==
  \E listener \in Listeners :
    /\ busSteps < MaxBusSteps
    /\ busValidListeners' = Append(busValidListeners, listener)
    /\ busLast' = BusOp("on", ValidKind, 0, FALSE, <<>>, <<>>)
    /\ busSteps' = busSteps + 1
    /\ UNCHANGED outsideBus
    /\ UNCHANGED <<busValidHistory, busErrorHistory, busErrorListeners, deliveries,
                   running, overlapped>>

\* InMemoryOrderStream.onErrorOrder
OnErrorOrder ==
  \E listener \in Listeners :
    /\ busSteps < MaxBusSteps
    /\ busErrorListeners' = Append(busErrorListeners, listener)
    /\ busLast' = BusOp("on", ErrorKind, 0, FALSE, <<>>, <<>>)
    /\ busSteps' = busSteps + 1
    /\ UNCHANGED outsideBus
    /\ UNCHANGED <<busValidHistory, busErrorHistory, busValidListeners, deliveries,
                   running, overlapped>>

\* InMemoryOrderStream.offValidOrder
OffValidOrder ==
  \E listener \in Listeners :
    /\ busSteps < MaxBusSteps
    /\ busValidListeners' = removeListener(busValidListeners, listener)
    /\ busLast' = BusOp("off", ValidKind, 0, FALSE, <<>>, <<>>)
    /\ busSteps' = busSteps + 1
    /\ UNCHANGED outsideBus
    /\ UNCHANGED <<busValidHistory, busErrorHistory, busErrorListeners, deliveries,
                   running, overlapped>>

\* InMemoryOrderStream.offErrorOrder
OffErrorOrder ==
  \E listener \in Listeners :
    /\ busSteps < MaxBusSteps
    /\ busErrorListeners' = removeListener(busErrorListeners, listener)
    /\ busLast' = BusOp("off", ErrorKind, 0, FALSE, <<>>, <<>>)
    /\ busSteps' = busSteps + 1
    /\ UNCHANGED outsideBus
    /\ UNCHANGED <<busValidHistory, busErrorHistory, busValidListeners, deliveries,
                   running, overlapped>>

\* the effect of one emit on the history of calls
Emitted(kind, event, subscribed) ==
  \E run \in {emitTo([called |-> <<>>, running |-> running, overlapped |-> overlapped,
                     threw |-> FALSE, listeners |-> subscribed],
                    subscribed, event)} :
     /\ deliveries' = deliveries \o [i \in 1..Len(run.called) |->
                                       [listener |-> run.called[i], kind |-> kind,
                                        event |-> event]]
     /\ running' = run.running
     /\ overlapped' = run.overlapped
     /\ busValidListeners' = IF kind = ValidKind THEN run.listeners ELSE busValidListeners
     /\ busErrorListeners' = IF kind = ErrorKind THEN run.listeners ELSE busErrorListeners
     /\ busLast' = BusOp("emit", kind, event, run.threw, subscribed, run.called)

\* InMemoryOrderStream.emitValidOrder: push to the history, then emit
BusEmitValidOrder ==
  \E order \in {OrderR1, OrderR3} :
    /\ busSteps < MaxBusSteps
    /\ busValidHistory' = Append(busValidHistory, [orderEvent |-> order, receivedAt |-> Now])
    /\ Emitted(ValidKind, busSteps + 1, busValidListeners)
    /\ busSteps' = busSteps + 1
    /\ UNCHANGED outsideBus
    /\ UNCHANGED busErrorHistory

\* InMemoryOrderStream.emitErrorOrder
BusEmitErrorOrder ==
  /\ busSteps < MaxBusSteps
  /\ busErrorHistory' = Append(busErrorHistory,
                               [partnerId |-> PARTNER_A, originalOrderId |-> Str(O1),
                                errors |-> <<>>, rawInput |-> NegativeQuantityA,
                                timestamp |-> Now])
  /\ Emitted(ErrorKind, busSteps + 1, busErrorListeners)
  /\ busSteps' = busSteps + 1
  /\ UNCHANGED outsideBus
  /\ UNCHANGED busValidHistory

\* InMemoryOrderStream.clearHistory
BusClearHistory ==
  /\ busSteps < MaxBusSteps
  /\ busValidHistory' = <<>>
  /\ busErrorHistory' = <<>>
  /\ busLast' = BusOp("clearHistory", ValidKind, 0, FALSE, <<>>, <<>>)
  /\ busSteps' = busSteps + 1
  /\ UNCHANGED outsideBus
  /\ UNCHANGED <<busValidListeners, busErrorListeners, deliveries, running, overlapped>>

\* InMemoryOrderStream.removeAllListeners: the listeners of every kind
BusRemoveAllListeners ==
  /\ busSteps < MaxBusSteps
  /\ busValidListeners' = <<>>
  /\ busErrorListeners' = <<>>
  /\ busLast' = BusOp("removeAllListeners", ValidKind, 0, FALSE, <<>>, <<>>)
  /\ busSteps' = busSteps + 1
  /\ UNCHANGED outsideBus
  /\ UNCHANGED <<busValidHistory, busErrorHistory, deliveries, running, overlapped>>

\* the promise of a call of an async listener settles
ListenerCompletes ==
  \E r \in BagToSet(running) :
    /\ busSteps < MaxBusSteps
    /\ running' = running (-) SetToBag({r})
    /\ busLast' = BusOp("complete", ValidKind, r.event, FALSE, <<>>, <<>>)
    /\ busSteps' = busSteps + 1
    /\ UNCHANGED outsideBus
    /\ UNCHANGED <<busValidHistory, busErrorHistory, busValidListeners, busErrorListeners,
                   deliveries, overlapped>>

NextBus ==
  \/ OnValidOrder
  \/ OnErrorOrder
  \/ OffValidOrder
  \/ OffErrorOrder
  \/ BusEmitValidOrder
  \/ BusEmitErrorOrder
  \/ BusClearHistory
  \/ BusRemoveAllListeners
  \/ ListenerCompletes

SpecBus == Init /\ [][NextBus]_vars

\* the result kept with a call that returns no page: the first page of a
\* repository without orders
NoResult ==
  [data |-> <<>>, total |-> 0, page |-> Num(1), pageSize |-> Num(20),
   totalPages |-> Num(0), hasMore |-> FALSE]

\* the record of a call on the repository
RepoOp(op, filters, pagination, sort, n, result) ==
  [op |-> op, filters |-> filters, pagination |-> pagination, sort |-> sort,
   count |-> n, result |-> result]

\* the record of a call that returns no page
NoQuery(op) ==
  RepoOp(op, NoFilters, NoPagination, NoSort, 0, NoResult)

\* the order event the valid-order listener of createContainer hands to
\* save for a valid payload of Partner A: what transformPartnerA returned
OrderOfFeed == transformPartnerA(ValidA(O1))

\* the orders handed to save and saveBatch
SavedOrders == {OrderR1, OrderR2, OrderR3, OrderR1Moved, OrderOfFeed}

SavedBatches == {<<>>, <<OrderR2>>, <<OrderR1, OrderR2>>, <<OrderR3, OrderR1>>}

\* the queries made
QueryFilters ==
  {NoFilters,
   FiltersOf([partnerId |-> Str(PartnerChars(PARTNER_A))]),
   FiltersOf([customerId |-> Str(<<"C">>)]),
   FiltersOf([customerId |-> Str(<<>>)]),
   FiltersOf([minAmount |-> Num(9995)]),
   FiltersOf([maxAmount |-> Num(9995)]),
   FiltersOf([fromDate |-> DateOf(28423350)]),
   FiltersOf([toDate |-> DateOf(28423350)]),
   FiltersOf([partnerId |-> Str(PartnerChars(PARTNER_A)), minAmount |-> Num(10000)])}

\* the pagination and sort of a query
QueryOptions ==
  {<<NoPagination, NoSort>>,
   <<Pagination(Num(1), Num(1)), NoSort>>,
   <<Pagination(Num(2), Num(1)), SortBy("grossAmount", "asc")>>,
   <<Pagination(Num(1), Num(2)), SortBy("sequenceNumber", "desc")>>,
   <<Pagination(Num(0), Num(2)), SortBy("transactionTime", "asc")>>,
   <<Pagination(Num(-1), Num(1)), NoSort>>,
   <<Pagination(Num(1), Num(0)), SortBy("processedAt", "desc")>>}

\* InMemoryOrderRepository.save
RepoSave ==
  \E order \in SavedOrders :
    /\ repoSteps < MaxRepoSteps
    /\ \E r \in {save(RepoStore, order)} :
          /\ repoOrders' = r.orders
          /\ repoExternalIdIndex' = r.externalIdIndex
    /\ saveLog' = Append(saveLog, order)
    /\ batchAlone' = IF batchActive THEN FALSE ELSE batchAlone
    /\ repoLast' = NoQuery("save")
    /\ repoSteps' = repoSteps + 1
    /\ UNCHANGED outsideRepo
    /\ UNCHANGED <<batchActive, batchRest, batchOrders, batchBefore>>

\* InMemoryOrderRepository.saveBatch is called: the loop runs up to its
\* first await, which is after the save of the first order
SaveBatchCalled ==
  \E orderList \in SavedBatches :
    /\ repoSteps < MaxRepoSteps
    /\ ~batchActive
    /\ \E r \in {saveBatchStep(RepoStore, orderList)} :
          /\ repoOrders' = r.repo.orders
          /\ repoExternalIdIndex' = r.repo.externalIdIndex
          /\ batchActive' = ~r.done
          /\ batchRest' = r.rest
          /\ saveLog' = saveLog \o r.saved
    /\ batchOrders' = orderList
    /\ batchBefore' = RepoStore
    /\ batchAlone' = TRUE
    /\ repoLast' = NoQuery("saveBatch")
    /\ repoSteps' = repoSteps + 1
    /\ UNCHANGED outsideRepo

\* saveBatch resumes behind its await and runs up to the next one
SaveBatchResumes ==
  /\ repoSteps < MaxRepoSteps
  /\ batchActive
  /\ \E r \in {saveBatchStep(RepoStore, batchRest)} :
        /\ repoOrders' = r.repo.orders
        /\ repoExternalIdIndex' = r.repo.externalIdIndex
        /\ batchActive' = ~r.done
        /\ batchRest' = r.rest
        /\ saveLog' = saveLog \o r.saved
  /\ repoLast' = NoQuery("resume")
  /\ repoSteps' = repoSteps + 1
  /\ UNCHANGED outsideRepo
  /\ UNCHANGED <<batchOrders, batchBefore, batchAlone>>

\* InMemoryOrderRepository.clear
Clear ==
  /\ repoSteps < MaxRepoSteps
  /\ \E r \in {clear(RepoStore)} :
        /\ repoOrders' = r.orders
        /\ repoExternalIdIndex' = r.externalIdIndex
  /\ saveLog' = <<>>
  /\ batchAlone' = IF batchActive THEN FALSE ELSE batchAlone
  /\ repoLast' = NoQuery("clear")
  /\ repoSteps' = repoSteps + 1
  /\ UNCHANGED outsideRepo
  /\ UNCHANGED <<batchActive, batchRest, batchOrders, batchBefore>>

\* InMemoryOrderRepository.count
Count ==
  \E filters \in QueryFilters :
    /\ repoSteps < MaxRepoSteps
    /\ repoLast' = RepoOp("count", filters, NoPagination, NoSort,
                          count(RepoStore, filters), NoResult)
    /\ repoSteps' = repoSteps + 1
    /\ UNCHANGED outsideRepo
    /\ UNCHANGED <<repoOrders, repoExternalIdIndex, batchActive, batchRest, batchOrders,
                   batchBefore, batchAlone, saveLog>>

\* InMemoryOrderRepository.findMany
FindMany ==
  \E filters \in QueryFilters, options \in QueryOptions :
    /\ repoSteps < MaxRepoSteps
    /\ repoLast' = RepoOp("findMany", filters, options[1], options[2], 0,
                          findMany(RepoStore, filters, options[1], options[2]))
    /\ repoSteps' = repoSteps + 1
    /\ UNCHANGED outsideRepo
    /\ UNCHANGED <<repoOrders, repoExternalIdIndex, batchActive, batchRest, batchOrders,
                   batchBefore, batchAlone, saveLog>>

NextRepo ==
  \/ RepoSave
  \/ SaveBatchCalled
  \/ SaveBatchResumes
  \/ Clear
  \/ Count
  \/ FindMany

SpecRepo == Init /\ [][NextRepo]_vars

\* ------------------------------------------------------- HTTP: actions
\* a request or a timer is taken up when the handler before it has run to
\* its end: the continuations of an await run before the next of them
Idle == apiPending = <<>>

\* the accepted order of a response to a feed route
Accepted(partnerId, orderId, sequenceNumber) ==
  [partnerId |-> partnerId, orderId |-> orderId, sequenceNumber |-> sequenceNumber]

\* POST /api/feed/partner-a or /partner-b
Post(partnerId, body) ==
  /\ apiSteps < MaxApiSteps
  /\ Idle
  /\ \E r \in {postOrder(api, partnerId, body)} :
        /\ api' = r.sys
        /\ acceptedLog' =
             IF r.status = 202
             THEN Append(acceptedLog,
                         Accepted(partnerId, r.result.orderId, r.result.sequenceNumber))
             ELSE acceptedLog
        /\ apiLast' = ApiOp("post", partnerId, body, r.status, r.result,
                            QueryOf(Undef, Undef), NoPagination, <<>>)
  /\ apiSteps' = apiSteps + 1
  /\ UNCHANGED apiPending
  /\ UNCHANGED outsideApi

PostPartnerA == \E body \in PostedA : Post(PARTNER_A, body)

PostPartnerB == \E body \in PostedB : Post(PARTNER_B, body)

\* the accepted orders of the response to a batch
AcceptedOf(results) ==
  [i \in 1..Len(SelectSeq(results, LAMBDA r : r.status = "accepted")) |->
     Accepted(SelectSeq(results, LAMBDA r : r.status = "accepted")[i].partnerId,
              SelectSeq(results, LAMBDA r : r.status = "accepted")[i].orderId,
              SelectSeq(results, LAMBDA r : r.status = "accepted")[i].sequenceNumber)]

\* POST /api/feed/partner-a/batch or /partner-b/batch
PostBatch(partnerId, body) ==
  /\ apiSteps < MaxApiSteps
  /\ Idle
  /\ \E r \in {postBatch(api, partnerId, body)} :
        /\ api' = r.sys
        /\ acceptedLog' = acceptedLog \o AcceptedOf(r.result.results)
        /\ apiLast' = ApiOp("postBatch", partnerId, body, r.status, r.result,
                            QueryOf(Undef, Undef), NoPagination, <<>>)
  /\ apiSteps' = apiSteps + 1
  /\ UNCHANGED apiPending
  /\ UNCHANGED outsideApi

PostPartnerABatch == \E body \in PostedBatches(PARTNER_A) : PostBatch(PARTNER_A, body)

PostPartnerBBatch == \E body \in PostedBatches(PARTNER_B) : PostBatch(PARTNER_B, body)

\* a timer set by scheduleSave fires and its callback writes the file of
\* the adapter
ApiTimerFires ==
  \E t \in api.loop.timers, outcome \in WriteOutcomes :
    /\ apiSteps < MaxApiSteps
    /\ Idle
    /\ api' = timerCallback([api EXCEPT !.loop.timers = @ \ {t}], t.owner, outcome)
    /\ apiLast' = [ApiOp("timer", PARTNER_A, NullPayload, 0,
                         FeedResult(FALSE, Undef, PARTNER_A, Undef, <<>>),
                         QueryOf(Undef, Undef), NoPagination, <<>>)
                     EXCEPT !.writer = t.owner, !.outcome = outcome]
    /\ apiSteps' = apiSteps + 1
    /\ UNCHANGED <<apiPending, acceptedLog>>
    /\ UNCHANGED outsideApi

\* GET /api/orders?...: the handler parses the query and calls listOrders,
\* whose findMany runs to its end on the orders stored now, and waits for
\* the promise at its await
GetOrdersCalled ==
  \E query \in Queries :
    /\ apiSteps < MaxApiSteps
    /\ Idle
    /\ \E r \in {getOrders(api, query)} :
          apiPending' = <<ApiOp("getOrders", PARTNER_A, NullPayload, 200,
                               FeedResult(FALSE, Undef, PARTNER_A, Undef, <<>>),
                               query, r.pagination, r.page)>>
    /\ apiSteps' = apiSteps + 1
    /\ UNCHANGED <<api, acceptedLog, apiLast>>
    /\ UNCHANGED outsideApi

\* the handler of GET /api/orders resumes behind its await and answers
\* with the result
GetOrdersAnswered ==
  /\ ~Idle
  /\ apiLast' = apiPending[1]
  /\ apiPending' = <<>>
  /\ UNCHANGED <<api, acceptedLog, apiSteps>>
  /\ UNCHANGED outsideApi

NextApi ==
  \/ PostPartnerA
  \/ PostPartnerB
  \/ PostPartnerABatch
  \/ PostPartnerBBatch
  \/ ApiTimerFires
  \/ GetOrdersCalled
  \/ GetOrdersAnswered

SpecApi == Init /\ [][NextApi]_vars



\* ---------------------------------------------------------------- claims
\* the calls for a partner that returned success, in call order
Successes(partnerId) ==
  SelectSeq(callLog, LAMBDA r : r.partnerId = partnerId /\ r.success)

\* the getNextSequence returns for a partner, in call order
IssuedTo(partnerId) == SelectSeq(seqLog, LAMBDA e : e.partnerId = partnerId)

\* only the feed handler has touched the counter of the partner
FeedOnly(partnerId) ==
  /\ partnerId \notin resetPartners
  /\ \A i \in 1..Len(seqLog) : seqLog[i].partnerId = partnerId => seqLog[i].caller = "feed"

\* the orders stored in the repository for a partner
StoredOf(partnerId) == {i \in 1..Len(orders) : orders[i].v.partnerId = partnerId}

LastIsFeed == last.op \in {"process", "batch"}

\* the subscribers createContainer wired to the streams are subscribed
Wired == validListeners = <<PersistOrder>> /\ errorListeners = <<PersistError>>

\* C1: with no reset, the sequence numbers returned by the successful
\* process calls of a partner are 1, 2, ..., k in call order.
C1_ReturnedNumbersAreDense ==
  \A p \in PartnerIds :
    FeedOnly(p) =>
      \A i \in 1..Len(Successes(p)) : Successes(p)[i].sequenceNumber = Num(i)

\* C1 witness: two successful calls for one partner with a rejected call of
\* the same partner between them
C1_Witness ==
  \E p \in PartnerIds :
    /\ FeedOnly(p)
    /\ Len(Successes(p)) >= 2
    /\ \E i \in 1..Len(callLog) :
         /\ callLog[i].partnerId = p /\ ~callLog[i].success
         /\ \E j \in 1..Len(callLog) : j < i /\ callLog[j].partnerId = p /\ callLog[j].success
         /\ \E j \in 1..Len(callLog) : j > i /\ callLog[j].partnerId = p /\ callLog[j].success

\* C2 (as claimed): in the wired system, for each partner whose counter
\* only the feed handler touched, the sequenceNumber values of the stored
\* orders are exactly 1..N, one order each.
C2_StoredSequenceNumbersAreDense ==
  \A p \in PartnerIds :
    (Wired /\ FeedOnly(p)) =>
      \E N \in 0..Len(orders) :
        /\ Cardinality(StoredOf(p)) = N
        /\ {orders[i].v.sequenceNumber : i \in StoredOf(p)} = {Num(k) : k \in 1..N}

\* C3: a process call that does not succeed (its payload fails validation)
\* leaves the counter of every partner as it was before the call.
C3_RejectionKeepsCounters ==
  (LastIsFeed /\ \A i \in 1..Len(last.returned) : ~last.returned[i].success) =>
    \A q \in PartnerIds :
      getCurrentSequence(sequences, q) = getCurrentSequence(last.before.sequences, q)

\* C3 witness: a rejected payload for a partner whose counter is above 0
C3_Witness ==
  /\ last.op = "process"
  /\ Len(last.returned) = 1
  /\ ~last.returned[1].success
  /\ getCurrentSequence(sequences, last.partnerId) >= 1

\* C4: a request adds one ERROR_ORDER event per payload it rejected and one
\* VALID_ORDER event per payload it accepted, so none for a rejected one;
\* when every payload of the request was rejected the events added carry
\* the payloads in order, no VALID_ORDER event is added and the order
\* repository is unchanged.
C4_RejectionEmitsOneError ==
  /\ LastIsFeed =>
       /\ Len(errorOrderHistory) = last.before.errorCount
            + Len(SelectSeq(last.returned, LAMBDA r : ~r.success))
       /\ Len(validOrderHistory) = last.before.validCount
            + Len(SelectSeq(last.returned, LAMBDA r : r.success))
  /\ (LastIsFeed /\ \A i \in 1..Len(last.returned) : ~last.returned[i].success) =>
       /\ Len(errorOrderHistory) = last.before.errorCount + Len(last.returned)
       /\ \A i \in 1..Len(last.returned) :
            errorOrderHistory[last.before.errorCount + i].rawInput = last.inputs[i]
       /\ Len(validOrderHistory) = last.before.validCount
       /\ orders = last.before.orders
       /\ externalIdIndex = last.before.externalIdIndex

\* C4 witness: a rejected payload arrives when the repository holds an order
C4_Witness ==
  /\ last.op = "process"
  /\ Len(last.returned) = 1
  /\ ~last.returned[1].success
  /\ Len(orders) >= 1
  /\ Len(errorOrderHistory) >= 2

\* C5 (as claimed): in the wired system an accepted payload adds exactly one
\* VALID_ORDER event and no ERROR_ORDER event, and afterwards
\* findByExternalId(externalOrderId, partnerId) returns an order.
C5_AcceptedIsFoundByExternalId ==
  (Wired /\ last.op = "process" /\ Len(last.returned) = 1 /\ last.returned[1].success) =>
    /\ Len(validOrderHistory) = last.before.validCount + 1
    /\ Len(errorOrderHistory) = last.before.errorCount
    /\ findByExternalId(Repo, last.returned[1].orderId, last.partnerId) # <<>>

\* C6: every order in the repository is the orderEvent of a VALID_ORDER
\* event that was emitted on the stream before, whether or not the history
\* was cleared since.
C6_StoredWasPublished ==
  \A i \in 1..Len(orders) : orders[i].v \in published

\* C6 witness: the repository holds an order after two publications, the
\* second one made with the subscribers removed
C6_Witness ==
  /\ Len(orders) = 1
  /\ Cardinality(published) = 2
  /\ validListeners = <<>>

\* C7 (as claimed): in the valid-order history restricted to one partner
\* (whose counter only the feed handler touched), sequenceNumber is strictly
\* increasing in emit order.
C7_EmittedInSequenceOrder ==
  \A i, j \in 1..Len(validOrderHistory) :
    (/\ i < j
     /\ validOrderHistory[i].orderEvent.partnerId = validOrderHistory[j].orderEvent.partnerId
     /\ FeedOnly(validOrderHistory[i].orderEvent.partnerId)) =>
      JsLess(validOrderHistory[i].orderEvent.sequenceNumber,
             validOrderHistory[j].orderEvent.sequenceNumber)

\* C8: whatever the interleaving of the requests and other callers, no two
\* getNextSequence calls for a partner return the same value (as long as the
\* counter is not reset).
C8_NoNumberIssuedTwice ==
  \A p \in PartnerIds :
    p \notin resetPartners =>
      \A i, j \in 1..Len(IssuedTo(p)) : i # j => IssuedTo(p)[i].value # IssuedTo(p)[j].value

\* C8 witness: a partner got numbers from the feed handler and from another
\* caller, with a request of the other partner in between
C8_Witness ==
  \E p \in PartnerIds :
    /\ p \notin resetPartners
    /\ \E i, j \in 1..Len(seqLog) :
         /\ seqLog[i].partnerId = p /\ seqLog[i].caller = "feed"
         /\ seqLog[j].partnerId = p /\ seqLog[j].caller = "direct"
    /\ \E i \in 1..Len(seqLog) : seqLog[i].partnerId # p

\* C9: getNextSequence(p), resetSequence(p) and feed processing for p leave
\* the counter of every other partner unchanged.
C9_PartnersAreIndependent ==
  last.op \in {"process", "batch", "getNextSequence", "resetSequence"} =>
    \A q \in PartnerIds \ {last.partnerId} :
      getCurrentSequence(sequences, q) = getCurrentSequence(last.before.sequences, q)

\* C9 witness: the counter of one partner is reset from a value above 0
\* while the counter of the other partner is above 0
C9_Witness ==
  /\ last.op = "resetSequence"
  /\ getCurrentSequence(last.before.sequences, last.partnerId) >= 1
  /\ \E q \in PartnerIds \ {last.partnerId} : getCurrentSequence(sequences, q) >= 1

\* the payload passes the validator of the partner
IsValidFor(partnerId, input) ==
  IF partnerId = PARTNER_A THEN validatePartnerA(input).isValid
  ELSE validatePartnerB(input).isValid

\* C10 (as claimed): a batch of n payloads returns n results, result i being
\* the outcome of payload i, and the sequence numbers of the successful
\* elements are consecutive from the counter before the batch + 1.
C10_BatchReturnsEveryOutcome ==
  last.op = "batch" =>
    /\ ~last.threw
    /\ Len(last.results) = Len(last.inputs)
    /\ \A i \in 1..Len(last.results) :
         last.results[i].success = IsValidFor(last.partnerId, last.inputs[i])
    /\ LET ok == SelectSeq(last.results, LAMBDA r : r.success)
           start == getCurrentSequence(last.before.sequences, last.partnerId)
       IN \A i \in 1..Len(ok) : ok[i].sequenceNumber = Num(start + i)

\* -------------------------------------------- claims: file-backed adapters
\* the numbers FileSequenceManager.getNextSequence returned for a partner,
\* in call order, over all processes
FileIssuedTo(partnerId) == SelectSeq(fileLog, LAMBDA e : e.partnerId = partnerId)

\* the numbers returned for a partner by one process
IssuedInLife(partnerId, l) ==
  SelectSeq(fileLog, LAMBDA e : e.partnerId = partnerId /\ e.life = l)

NeverReset(partnerId) == \A r \in fileResets : r.partnerId # partnerId

\* C11: over crashes and restarts of the file-backed sequence generator, no
\* number is returned twice for a partner whose counter was never reset.
C11_NoNumberReturnedTwiceAcrossRestarts ==
  \A p \in PartnerIds :
    NeverReset(p) =>
      \A i, j \in 1..Len(FileIssuedTo(p)) :
        i < j => FileIssuedTo(p)[i].value # FileIssuedTo(p)[j].value

\* C12: when a restart follows a flush that wrote the file, every partner's
\* counter in the new process is the counter before the restart, and the
\* first number the new process returns for the partner is that counter + 1.
C12_RestartAfterFlushContinues ==
  restored.valid =>
    \A p \in PartnerIds :
      [partnerId |-> p, life |-> life] \notin fileResets =>
        IF IssuedInLife(p, life) = <<>>
        THEN getCurrentSequence(fileSequences, p) = restored.counters[p]
        ELSE IssuedInLife(p, life)[1].value = restored.counters[p] + 1

\* C12 witness: a counter that had advanced was flushed, the process was
\* restarted and the new process has returned a number for that partner
C12_Witness ==
  /\ restored.valid
  /\ \E p \in PartnerIds :
       /\ restored.counters[p] >= 1
       /\ IssuedInLife(p, life) # <<>>
       /\ [partnerId |-> p, life |-> life] \notin fileResets

\* C13: however many writes of sequences.json have failed, getNextSequence
\* returns current + 1 and stores it in memory, and the numbers a process
\* returns for a partner it has not reset are strictly increasing.
C13_WriteFailuresKeepNumbersIncreasing ==
  /\ fileLast.op = "getNextSequence" =>
       /\ fileLast.value = fileLast.current + 1
       /\ getCurrentSequence(fileSequences, fileLast.partnerId) = fileLast.value
  /\ \A p \in PartnerIds, l \in 1..life :
       [partnerId |-> p, life |-> l] \notin fileResets =>
         \A i \in 1..(Len(IssuedInLife(p, l)) - 1) :
           IssuedInLife(p, l)[i].value < IssuedInLife(p, l)[i + 1].value

\* C13 witness: a number above 1 is returned after two writes have failed
\* and sequences.json was never written
C13_Witness ==
  /\ fileLast.op = "getNextSequence"
  /\ fileLast.failed >= 2
  /\ fileLast.value >= 2
  /\ ~sequencesFile.exists

\* C14: each writer has at most one pending timer, which is the one its
\* saveTimeout handle names (so the next update clears it), and a flush
\* leaves the writer without a pending timer.
C14_AtMostOnePendingWrite ==
  /\ \A w \in Writers :
       /\ Cardinality(Pending(Loop, w)) <= 1
       /\ \A t \in Pending(Loop, w) : t.id = saveTimeout[w]
  /\ fileLast.op = "flush" => Pending(Loop, fileLast.writer) = {}

\* C14 witness: every writer has a write pending and the last update
\* arrived while a write of its writer was pending
C14_Witness ==
  /\ \A w \in Writers : Cardinality(Pending(Loop, w)) = 1
  /\ fileLast.op \in {"getNextSequence", "resetSequence", "resetAll", "save"}
  /\ fileLast.pending = 1

\* ------------------------------------------------------ claims: stream bus
\* the listeners subscribed now to the kind of the last emit
SubscribedToLast ==
  IF busLast.kind = ValidKind THEN busValidListeners ELSE busErrorListeners

\* C15: an emit calls the listeners subscribed to its kind, each once and in
\* subscription order, and no other listener.
C15_EveryListenerCalledOnceInOrder ==
  busLast.op = "emit" => busLast.called = busLast.subscribed

\* C16: when a subscriber throws, emit still returns normally and every
\* other subscriber of the kind has been called with the event.
C16_ThrowingSubscriberIsIsolated ==
  (/\ busLast.op = "emit"
   /\ \E i \in 1..Len(busLast.subscribed) : busLast.subscribed[i] = ThrowingListener)
  => /\ ~busLast.threw
     /\ \A l \in Listeners \ {ThrowingListener} :
          Len(SelectSeq(busLast.called, LAMBDA c : c = l))
            = Len(SelectSeq(busLast.subscribed, LAMBDA c : c = l))

\* C17: a subscriber receives the events of a kind in emit order, and no
\* call of a subscriber starts while an earlier call of it is running.
C17_DeliveriesAreSerialized ==
  /\ overlapped = {}
  /\ \A i, j \in 1..Len(deliveries) :
       (/\ i < j
        /\ deliveries[i].listener = deliveries[j].listener
        /\ deliveries[i].kind = deliveries[j].kind)
       => deliveries[i].event <= deliveries[j].event

\* ------------------------------------------------- claims: order repository
\* the position in saveLog of the last save of an order with the id, and of
\* the last save of an order with the external id of the partner
LastSaveOfId(id) ==
  CHOOSE i \in 1..Len(saveLog) :
    /\ saveLog[i].id = id
    /\ \A j \in (i + 1)..Len(saveLog) : saveLog[j].id # id

IsLastSaveOfExternalId(i) ==
  \A j \in (i + 1)..Len(saveLog) :
    ~(/\ saveLog[j].externalOrderId = saveLog[i].externalOrderId
      /\ saveLog[j].partnerId = saveLog[i].partnerId)

\* the repository after all the orders of the last saveBatch are saved
BatchAfter == saveBatch(batchBefore, batchOrders)

\* C19: while a saveBatch is in progress and nothing else writes, the
\* primary map and the external-id index a reader sees are those from before
\* the batch or those with the whole batch.
C19_SaveBatchIsAtomic ==
  (batchActive /\ batchAlone) => RepoStore \in {batchBefore, BatchAfter}

\* the instant `at` is not before the Date `from`
NotBefore(at, from) ==
  /\ TimeOf(at).t = "time" /\ TimeOf(from).t = "time"
  /\ ~TimeLess(TimeOf(at), TimeOf(from))

\* the instant `at` is not after the Date `to`
NotAfter(at, to) ==
  /\ TimeOf(at).t = "time" /\ TimeOf(to).t = "time"
  /\ ~TimeLess(TimeOf(to), TimeOf(at))

\* the amount `a` is a number that is at least the number `b`
AtLeast(a, b) == a.t = "number" /\ b.t = "number" /\ a.n >= b.n

\* an order satisfies the filters: exact partner, customer and product,
\* transactionTime within [fromDate, toDate], grossAmount within
\* [minAmount, maxAmount]; a filter that is not given matches all
Satisfies(order, filters) ==
  /\ filters.partnerId = Undef \/ Str(PartnerChars(order.partnerId)) = filters.partnerId
  /\ filters.customerId = Undef \/ order.customerId = filters.customerId
  /\ filters.productId = Undef \/ order.productId = filters.productId
  /\ filters.fromDate = Undef \/ NotBefore(order.transactionTime, filters.fromDate)
  /\ filters.toDate = Undef \/ NotAfter(order.transactionTime, filters.toDate)
  /\ filters.minAmount = Undef \/ AtLeast(order.grossAmount, filters.minAmount)
  /\ filters.maxAmount = Undef \/ AtLeast(filters.maxAmount, order.grossAmount)

\* C20 (as claimed): on one repository state count(f) is the total of
\* findMany(f, pagination), whichever of the two was called, and every order
\* on the page is a stored order that satisfies f.
C20_CountIsTotalAndPagesMatch ==
  /\ repoLast.op = "count" =>
       \A options \in QueryOptions :
         findMany(RepoStore, repoLast.filters, options[1], options[2]).total
           = repoLast.count
  /\ repoLast.op = "findMany" =>
       /\ count(RepoStore, repoLast.filters) = repoLast.result.total
       /\ \A i \in 1..Len(repoLast.result.data) :
            /\ findById(RepoStore, repoLast.result.data[i].id) = <<repoLast.result.data[i]>>
            /\ Satisfies(repoLast.result.data[i], repoLast.filters)

\* ------------------------------------------------------------ pagination
\* the pages 1..n of a query, one after the other
RECURSIVE PagesUpTo(_, _, _, _, _)
PagesUpTo(repo, filters, pageSize, sort, n) ==
  IF n <= 0 THEN <<>>
  ELSE PagesUpTo(repo, filters, pageSize, sort, n - 1)
       \o findMany(repo, filters, Pagination(Num(n), Num(pageSize)), sort).data

\* C21: for a page size of at least 1, totalPages is the least number of
\* pages of that size that hold `total` orders, hasMore says whether the
\* page is before the last one, every page but the last is full, and the
\* pages 1..totalPages one after the other are the filtered and sorted orders.
C21_PagesPartitionTheResult ==
  (/\ repoLast.op = "findMany"
   /\ repoLast.result.pageSize.t = "number"
   /\ repoLast.result.pageSize.n >= 1) =>
    LET r == repoLast.result
        size == r.pageSize.n
        all == applySorting(applyFilters(values(repoOrders), repoLast.filters),
                            repoLast.sort)
    IN /\ r.totalPages.t = "number"
       /\ r.total = Len(all)
       /\ r.totalPages.n * size >= r.total
       /\ r.totalPages.n = 0 \/ (r.totalPages.n - 1) * size < r.total
       /\ r.hasMore = (r.page.t = "number" /\ r.page.n < r.totalPages.n)
       /\ PagesUpTo(RepoStore, repoLast.filters, size, repoLast.sort, r.totalPages.n) = all
       /\ \A k \in 1..(r.totalPages.n - 1) :
            Len(findMany(RepoStore, repoLast.filters, Pagination(Num(k), Num(size)),
                         repoLast.sort).data) = size

\* C21 witness: three stored orders asked for in pages of two: the first
\* page is full, a second one follows
C21_Witness ==
  /\ repoLast.op = "findMany"
  /\ repoLast.pagination = Pagination(Num(1), Num(2))
  /\ repoLast.result.total = 3
  /\ repoLast.result.totalPages = Num(2)
  /\ Len(repoLast.result.data) = 2
  /\ repoLast.result.hasMore

\* ------------------------------------------------------------ HTTP routes
\* C22: whatever the page and pageSize parameters of the request are, the
\* pagination handed to the repository has page >= 1 and 1 <= pageSize <= 100,
\* and an absent parameter gives page 1 and pageSize 20.
C22_PaginationIsClamped ==
  apiLast.op = "getOrders" =>
    /\ apiLast.pagination.page.n >= 1
    /\ apiLast.pagination.pageSize.n >= 1
    /\ apiLast.pagination.pageSize.n <= 100
    /\ apiLast.query.page = Undef => apiLast.pagination.page.n = 1
    /\ apiLast.query.pageSize = Undef => apiLast.pagination.pageSize.n = 20

\* the required fields of a partner's payload
RequiredFields(partnerId) ==
  IF partnerId = PARTNER_A
  THEN {"orderId", "skuId", "customerId", "quantity", "unitPrice", "taxRate",
        "transactionTimeMs"}
  ELSE {"transactionId", "itemCode", "clientId", "qty", "price", "tax", "purchaseTime"}

\* the value of a field that is present and not null has the wrong type or
\* lies outside the field's domain
OutOfDomain(value, field) ==
  CASE field \in {"orderId", "skuId", "customerId", "transactionId", "itemCode", "clientId"}
         -> validateString(value, field) # <<>>
    [] field \in {"quantity", "qty"} -> validateQuantity(value, field) # <<>>
    [] field \in {"unitPrice", "price"} -> validatePositiveNumber(value, field) # <<>>
    [] field = "taxRate" -> validateTaxRate(value, field, FALSE) # <<>>
    [] field = "tax" -> validateTaxRate(value, field, TRUE) # <<>>
    [] field = "transactionTimeMs" -> validateTimestampMs(value, field) # <<>>
    [] OTHER -> validateISO8601Timestamp(value, field) # <<>>

\* the field is missing, null, of the wrong type or out of its domain
Offending(obj, field) ==
  \/ ~HasKey(obj, field)
  \/ obj[field].t \in {"null", "undefined"}
  \/ OutOfDomain(obj[field], field)

\* C23: for a payload that is an object, the errors returned name every
\* required field that is missing, null, of the wrong type or out of its
\* domain.
C23_EveryOffendingFieldIsReported ==
  (apiLast.op = "post" /\ apiLast.body.root = "object") =>
    \A field \in RequiredFields(apiLast.partnerId) :
      Offending(apiLast.body.f, field) =>
        \E i \in 1..Len(apiLast.result.errors) : apiLast.result.errors[i].field = field

\* C25: a valid payload posted to a feed route is answered as accepted with
\* the next sequence number, its VALID_ORDER event is appended to the
\* history and the counter is advanced; and when a write of a file of the
\* persistent container fails afterwards, the history, the counters and the
\* stored orders stay as they were, so that every order that was answered
\* as accepted still has its event in the history and a counter that is
\* not behind its sequence number.
C25_FailedWriteKeepsTheOrderAccepted ==
  /\ (/\ apiLast.op = "post"
      /\ apiLast.body.root = "object"
      /\ IsValidFor(apiLast.partnerId, apiLast.body)) =>
       LET before == apiLast.before
           issued == getCurrentSequence(before.sequences, apiLast.partnerId) + 1
       IN /\ apiLast.status = 202
          /\ apiLast.result.success
          /\ apiLast.result.sequenceNumber = Num(issued)
          /\ getCurrentSequence(api.sequences, apiLast.partnerId) = issued
          /\ Len(api.validOrderHistory) = Len(before.validOrderHistory) + 1
          /\ SubSeq(api.validOrderHistory, 1, Len(before.validOrderHistory))
               = before.validOrderHistory
          /\ api.validOrderHistory[Len(api.validOrderHistory)].orderEvent.externalOrderId
               = apiLast.result.orderId
  /\ (apiLast.op = "timer" /\ apiLast.outcome # "written") =>
       /\ api.validOrderHistory = apiLast.before.validOrderHistory
       /\ api.sequences = apiLast.before.sequences
       /\ api.orders = apiLast.before.orders
       /\ api.externalIdIndex = apiLast.before.externalIdIndex
  /\ \A i \in 1..Len(acceptedLog) :
       /\ \E k \in 1..Len(api.validOrderHistory) :
            /\ api.validOrderHistory[k].orderEvent.externalOrderId = acceptedLog[i].orderId
            /\ api.validOrderHistory[k].orderEvent.partnerId = acceptedLog[i].partnerId
       /\ acceptedLog[i].sequenceNumber.n
            <= getCurrentSequence(api.sequences, acceptedLog[i].partnerId)

\* C25 witness: the container is persistent, a valid order of Partner A was
\* answered as accepted and stored, and the write of orders.json that its
\* save scheduled has just failed
C25_Witness ==
  /\ api.usePersistence
  /\ apiLast.op = "timer"
  /\ apiLast.writer = OrderWriter
  /\ apiLast.outcome # "written"
  /\ Len(acceptedLog) >= 1
  /\ Len(api.orders) >= 1
  /\ api.ordersFile # FileOf(stringifyOrders(api.orders))

\* ---------------------------------------------------------------- amounts
\* n / d rounded half up to an integer, for n >= 0 and d > 0
RoundHalfUp(n, d) == (2 * n + d) \div (2 * d)

\* C24: every stored order has grossAmount = round2(quantity * unitPrice),
\* taxAmount = round2(grossAmount * taxRate) and netAmount =
\* round2(grossAmount + taxAmount), each computed from the stored values.
\* Quantities and amounts are in hundredths, the rate in ten-thousandths.
C24_StoredAmountsAreRounded ==
  \A i \in 1..Len(orders) :
    LET o == orders[i].v
    IN /\ o.grossAmount.t = "number"
       /\ o.taxAmount.t = "number"
       /\ o.netAmount.t = "number"
       /\ o.grossAmount.n = RoundHalfUp(o.quantity.n * o.unitPrice.n, 10000)
       /\ o.taxAmount.n = RoundHalfUp(o.grossAmount.n * o.taxRate.n, 10000)
       /\ o.netAmount.n = o.grossAmount.n + o.taxAmount.n

\* ------------------------------------------------------------- statistics
\* C30: as long as only feed submissions have touched the counters and the
\* subscribers of the container are subscribed, the
\* unfiltered statistics of the order repository agree with the sequence
\* manager: for each partner highestSequence = ordersByPartner =
\* getCurrentSequence, and totalOrders is the sum of ordersByPartner.
C30_StatisticsAgreeWithSequences ==
  (Wired /\ \A p \in PartnerIds : FeedOnly(p)) =>
    LET stats == getStatistics(Repo, NoFilters)
    IN /\ \A p \in PartnerIds :
            /\ stats.highestSequence[p] = Num(getCurrentSequence(sequences, p))
            /\ stats.ordersByPartner[p] = getCurrentSequence(sequences, p)
       /\ stats.totalOrders
            = stats.ordersByPartner[PARTNER_A] + stats.ordersByPartner[PARTNER_B]

\* ------------------------------------------------- file order repository
\* the ids and external ids of the orders that are saved
StoredIds == {OrderR1.id, OrderR2.id, OrderR3.id}

StoredExternalIds == {OrderR1.externalOrderId, OrderR3.externalOrderId}

\* C26: a FileOrderRepository constructed on a directory whose orders.json
\* holds the orders of the repository that ran before, as after flush(),
\* answers findById and findByExternalId as that repository did.
C26_LoadedRepositoryAnswersAsBefore ==
  (fileLast.op = "restart" /\ restored.ordersValid) =>
    /\ \A id \in StoredIds : findById(FileRepo, id) = findById(restored.repo, id)
    /\ \A e \in StoredExternalIds, p \in PartnerIds :
         findByExternalId(FileRepo, e, p) = findByExternalId(restored.repo, e, p)

\* ---------------------------------------------------------- error queries
\* the filters of the queries made on the error repository
ErrorQueryFilters ==
  {ErrorFilters(p, c, from, to) :
     p \in {"", PARTNER_A, PARTNER_B}, c \in {"", "INVALID_VALUE", "MISSING_FIELD"},
     from \in {Undef, DateOf(Now + 1)}, to \in {Undef, DateOf(Now - 1)}}

\* the stored error event matches every filter that is given
ErrorSatisfies(e, filters) ==
  /\ filters.partnerId = "" \/ e.partnerId = filters.partnerId
  /\ filters.errorCode = "" \/ e.errorCode = filters.errorCode
  /\ filters.fromDate = Undef \/ NotBefore(e.timestamp, filters.fromDate)
  /\ filters.toDate = Undef \/ NotAfter(e.timestamp, filters.toDate)

\* C27: on the in-memory error repository of the container, findMany(filters)
\* returns exactly the stored error events that match all the filters given,
\* and count(filters) is the total of findMany(filters).
C27_ErrorFiltersAreConjunctive ==
  \A filters \in ErrorQueryFilters :
    LET found == inMemoryErrorFindMany(errors, filters, NoPagination)
    IN /\ {found.data[i] : i \in 1..Len(found.data)}
            = {errors[i].v : i \in {j \in 1..Len(errors) : ErrorSatisfies(errors[j].v, filters)}}
       /\ found.total = Len(found.data)
       /\ inMemoryErrorCount(errors, filters) = found.total

\* the same on the file-backed error repository
FileErrorFiltersAreConjunctive ==
  \A filters \in ErrorQueryFilters :
    LET found == fileErrorFindMany(fileErrors, filters, NoPagination)
    IN /\ {found.data[i] : i \in 1..Len(found.data)}
            = {fileErrors[i].v :
                 i \in {j \in 1..Len(fileErrors) : ErrorSatisfies(fileErrors[j].v, filters)}}
       /\ found.total = Len(found.data)
       /\ fileErrorCount(fileErrors, filters) = found.total

\* ------------------------------------------------------------ stream bus
\* the listeners of a kind after the listeners in `called` have made their
\* subscriptions and removals, in call order
RECURSIVE AfterChanges(_, _)
AfterChanges(listeners, called) ==
  IF called = <<>> THEN listeners
  ELSE AfterChanges(IF Head(called) = SubscribingListener THEN Append(listeners, SyncListener)
                    ELSE IF Head(called) = UnsubscribingListener
                    THEN removeListener(listeners, SyncListener)
                    ELSE listeners,
                    Tail(called))

\* a listener of the sequence changes the subscriptions while it runs
ChangesSubscriptions(listeners) ==
  \E i \in 1..Len(listeners) : listeners[i] \in {SubscribingListener, UnsubscribingListener}

\* C28: when listeners subscribe or unsubscribe while an emit is in progress
\* (and no listener throws), the emit calls exactly the listeners subscribed
\* at its entry, in order, and the changes are in the subscriptions after it,
\* which the next emit uses.
C28_ChangesDuringEmitApplyToTheNext ==
  (/\ busLast.op = "emit"
   /\ ChangesSubscriptions(busLast.subscribed)
   /\ \A i \in 1..Len(busLast.subscribed) : busLast.subscribed[i] # ThrowingListener)
  => /\ ~busLast.threw
     /\ busLast.called = busLast.subscribed
     /\ SubscribedToLast = AfterChanges(busLast.subscribed, busLast.subscribed)

\* C28 witness: an emit to a listener that unsubscribes SyncListener,
\* subscribed before it: both were called and SyncListener is no longer
\* subscribed
C28_Witness ==
  /\ busLast.op = "emit"
  /\ busLast.subscribed = <<UnsubscribingListener, SyncListener>>
  /\ busLast.called = <<UnsubscribingListener, SyncListener>>
  /\ SubscribedToLast = <<UnsubscribingListener>>

\* ------------------------------------------------------ external-id index
\* the external order ids of the orders that are saved
SavedExternalIds == {order.externalOrderId : order \in SavedOrders}

\* C29: after any sequence of save, saveBatch and clear,
\* findByExternalId(e, p) is null or a stored order whose externalOrderId is
\* e and whose partnerId is p, and existsByExternalId(e, p) is true exactly
\* when findByExternalId(e, p) is not null.
C29_IndexAgreesWithTheOrders ==
  \A e \in SavedExternalIds, p \in PartnerIds :
    LET found == findByExternalId(RepoStore, e, p)
    IN /\ found # <<>> =>
            /\ found[1].externalOrderId = e
            /\ found[1].partnerId = p
            /\ findById(RepoStore, found[1].id) = found
       /\ existsByExternalId(RepoStore, e, p) = (found # <<>>)

====
